---- MODULE Spec2Model ----
(***************************************************************************)
(* Signal-analysis engine of the EEG viewer: detrended fluctuation         *)
(* analysis (gui/analysis/dfa_analysis.py), band-spike detection           *)
(* (gui/analysis/band_spikes.py) and sliding-window band power             *)
(* (eeg/analysis/power_analyzer.py, eeg/analyzer.py), with the widgets     *)
(* around it: background loading (gui/main_window.py, gui/threading), the  *)
(* timeline (gui/plots) and the channel selector (gui/analysis).           *)
(*                                                                         *)
(* Arithmetic is exact: floating-point values are carried as integers or   *)
(* as integer ratios, so rounding noise of IEEE doubles is not modelled.   *)
(***************************************************************************)
EXTENDS Integers, Sequences, FiniteSets, TLC

VARIABLES
    \* ---- DFAAnalysis widget (dfa_analysis.py:22-36) ----
    current_data,      \* self.current_data : None or the channel's samples
    min_scale_spin,    \* self.min_scale_spin.value()
    max_scale_spin,    \* self.max_scale_spin : [lo, hi, val] of the QSpinBox
    n_scales_spin,     \* self.n_scales_spin.value()
    scales,            \* self.scales : None or the scales kept
    fluctuations,      \* self.fluctuations : None or their fluctuations
    alpha,             \* self.alpha : "None", "NaN" or "slope" (a fitted slope)
    stats_text,        \* what self.stats_text shows
    dfa_params,        \* (min_scale, max_scale, n_scales) read by calculate_dfa
    dfa_return,        \* arguments and result of the last calculate_dfa_direct call
    \* ---- BandSpikes widget (band_spikes.py:18-28) ----
    sp_analyzer,           \* self.analyzer : None or the power series it computes
    duration,              \* self.duration, whole seconds
    threshold_multiplier,  \* self.threshold_multiplier, in tenths
    power_data,            \* what detect_spikes last got from the analyzer
    spike_times,           \* spike_times of the last detection that computed them
    spike_events,          \* self.spike_events, times in ticks
    spike_count_label,     \* the count shown by self.spike_count_label
    \* ---- sliding-window band power ----
    pw_recording,          \* the recording analysed: [sfreq, n]
    sliding,               \* None or the last call with its result
    \* ---- PowerPlot widget (power_plot.py:16-26) ----
    plot_analyzer,         \* self.analyzer : None or the recording it holds
    plot_duration,         \* self.duration
    timeframe_start,       \* self.timeframe_start
    timeframe_end,         \* self.timeframe_end
    plot_curve,            \* None or the (time, power value) points drawn
    \* ---- AllBandsPower widget (all_bands_power.py:16-34) ----
    ab_analyzer,           \* self.analyzer : None or an analyzer
    band_visibility,       \* self.band_visibility
    band_power_data,       \* what update_plot last got from the analyzer
    all_power_data,        \* the curve drawn for each band that has one
    \* ---- FrequencyBands registry of a PowerAnalyzer ----
    custom_bands,          \* self.custom_bands : name -> (low, high)
    band_recording,        \* the data analysed: [sfreq, n, psd]
    band_call,             \* None or the last call with its result
    \* ---- channel selection of the analyses ----
    recording_loaded,      \* whether processor.raw holds a recording
    channel_count,         \* len(data): the channels of the recording
    current_channel,       \* DFAAnalysis.current_channel
    channel_call,          \* None or the last call by channel with its result
    data_channel,          \* None or the channel DFAAnalysis.current_data holds
    \* ---- TimeframeControls (main_window.py:36-42), times in tenths ----
    tf_total_duration,     \* self.total_duration
    tf_start_time,         \* self.start_time
    tf_end_time,           \* self.end_time
    tf_start_spin,         \* self.start_spin : [value, maximum]
    tf_end_spin,           \* self.end_spin : [value, maximum]
    tf_emitted,            \* the pairs timeframe_changed emitted in the last operation
    \* ---- one load: EEGProcessor and EEGAnalyzer (processor.py:12-15) ----
    load_step,             \* how far EEGLoadThread.run has come
    raw_samples,           \* processor.raw : None or its samples
    original_samples,      \* processor.original_raw : None or its samples
    filter_applied,        \* processor.filter_applied
    analyzer_processor,    \* whether analyzer.processor is the processor
    analysis_work,         \* None or the array the last analysis computed on
    \* ---- MainWindow and its EEGLoadThreads (main_window.py:502-553) ----
    window_kind,           \* which MainWindow class runs
    load_threads,          \* each EEGLoadThread created: how far its run has come
    load_thread,           \* self.load_thread : None or the thread last created
    finished_queue,        \* finished signals emitted and not yet handled
    installed,             \* None or what the last on_load_finished did
    \* ---- ThreadManager (thread_manager.py:16-18) ----
    active_threads,        \* self.active_threads : thread_id -> None or a thread
    managed_threads,       \* each thread given to start_thread: its id and state
    notifications,         \* finished signals emitted and not yet delivered
    \* ---- EEGTimelinePanel: TimelineControls and EEGPlotWidget, in ms ----
    tl_total_duration,     \* timeline_controls.total_duration
    tl_current_position,   \* timeline_controls.current_position
    tl_slider,             \* timeline_controls.timeline_slider.value()
    tl_plot_duration,      \* eeg_plot.total_duration
    tl_plot_position,      \* eeg_plot.current_position
    tl_emitted,            \* what timeline_changed emitted in the last operation
    tl_operation,          \* the last operation
    \* ---- ChannelSelector (channel_selector.py:16-20) ----
    cs_channel_count,      \* len(self.channel_names)
    cs_current_channel,    \* self.current_channel
    cs_combo_index,        \* self.channel_combo.currentIndex(), -1 when empty
    cs_emitted,            \* what channel_changed emitted in the last operation
    cs_operation           \* the last operation and its argument

dfaVars == <<current_data, min_scale_spin, max_scale_spin, n_scales_spin,
             scales, fluctuations, alpha, stats_text, dfa_params, dfa_return>>

spikeVars == <<sp_analyzer, duration, threshold_multiplier, power_data,
               spike_times, spike_events, spike_count_label>>

powerVars == <<pw_recording, sliding>>

plotVars == <<plot_analyzer, plot_duration, timeframe_start, timeframe_end,
              plot_curve>>

allBandsVars == <<ab_analyzer, band_visibility, band_power_data,
                  all_power_data>>

bandVars == <<custom_bands, band_recording, band_call>>

channelVars == <<recording_loaded, channel_count, current_channel,
                 channel_call, data_channel>>

timeframeVars == <<tf_total_duration, tf_start_time, tf_end_time,
                   tf_start_spin, tf_end_spin, tf_emitted>>

sessionVars == <<load_step, raw_samples, original_samples, filter_applied,
                 analyzer_processor, analysis_work>>

loadVars == <<window_kind, load_threads, load_thread, finished_queue,
              installed>>

managerVars == <<active_threads, managed_threads, notifications>>

timelineVars == <<tl_total_duration, tl_current_position, tl_slider,
                  tl_plot_duration, tl_plot_position, tl_emitted,
                  tl_operation>>

selectorVars == <<cs_channel_count, cs_current_channel, cs_combo_index,
                  cs_emitted, cs_operation>>

vars == <<dfaVars, spikeVars, powerVars, plotVars, allBandsVars, bandVars,
          channelVars, timeframeVars, sessionVars, loadVars, managerVars,
          timelineVars, selectorVars>>

\* Python's None and a present value: a sequence of no or of one element.
None == <<>>

Some(x) == <<x>>

----------------------------------------------------------------------------
(* Helpers on integers and sequences.                                      *)

Min2(a, b) == IF a <= b THEN a ELSE b

Max2(a, b) == IF a >= b THEN a ELSE b

\* s[a] + .. + s[b]
RECURSIVE SumRange(_, _, _)
SumRange(s, a, b) ==
    IF a > b THEN 0
    ELSE IF a = b THEN s[a]
    ELSE LET mid == (a + b) \div 2
         IN  SumRange(s, a, mid) + SumRange(s, mid + 1, b)

\* The elements s[i], i..last, whose index is kept by keep[i].
RECURSIVE SelectIdx(_, _, _, _)
SelectIdx(s, keep, i, last) ==
    IF i > last THEN <<>>
    ELSE (IF keep[i] THEN <<s[i]>> ELSE <<>>) \o SelectIdx(s, keep, i + 1, last)

----------------------------------------------------------------------------
(* Unbounded naturals as little-endian limb sequences, used only to        *)
(* compare the integer powers that decide a truncated logspace value.      *)

BigBase == 100 * 100

RECURSIVE BigNorm(_)
BigNorm(b) ==
    IF Len(b) > 1 /\ b[Len(b)] = 0 THEN BigNorm(SubSeq(b, 1, Len(b) - 1)) ELSE b

RECURSIVE BigMulCarry(_, _, _)
BigMulCarry(b, x, carry) ==
    IF b = <<>>
    THEN (IF carry = 0 THEN <<>> ELSE <<carry % BigBase>> \o
             BigMulCarry(<<>>, x, carry \div BigBase))
    ELSE LET v == Head(b) * x + carry
         IN  <<v % BigBase>> \o BigMulCarry(Tail(b), x, v \div BigBase)

\* b * x for 0 <= x <= BigBase
BigMulSmall(b, x) == BigNorm(BigMulCarry(b, x, 0))

RECURSIVE BigPowMul(_, _, _)
\* b * x^e
BigPowMul(b, x, e) ==
    IF e = 0 THEN b
    ELSE LET next == BigMulSmall(b, x)
         IN  IF Len(next) = 0 THEN next ELSE BigPowMul(next, x, e - 1)

RECURSIVE BigLeqFrom(_, _, _)
BigLeqFrom(a, b, i) ==
    IF i = 0 THEN TRUE
    ELSE IF a[i] # b[i] THEN a[i] < b[i]
    ELSE BigLeqFrom(a, b, i - 1)

BigLeq(a, b) ==
    IF Len(a) # Len(b) THEN Len(a) < Len(b) ELSE BigLeqFrom(a, b, Len(a))

----------------------------------------------------------------------------
(* DFAAnalysis: parameters and the signals the widget is given.            *)

MinDataLen == 100        \* calculate_dfa refuses shorter data
MinScaleLo == 2          \* min_scale_spin.setRange(2, 100)
MinScaleHi == 100
MaxScaleLo == 10         \* max_scale_spin.setRange(10, 10000)
MaxScaleHi == 10000
NScalesLo == 10          \* n_scales_spin.setRange(10, 50)
NScalesHi == 50
MinValidPairs == 2       \* alpha is fitted when len(scales) > 2

MaxExtraLen == 0         \* widget data lengths MinDataLen-1 .. MinDataLen+MaxExtraLen
MaxPairOffset == 1       \* how far from the end a +1/-1 pair may sit
MaxDirectLen == 6        \* data lengths 0..MaxDirectLen of direct calls
MaxDirectScale == 4      \* min_scale, max_scale in 1..MaxDirectScale there
MaxDirectN == 3          \* n_scales in 1..MaxDirectN there

\* A signal is kept by its description: a constant signal, an alternating
\* one, or a zero signal carrying one +1/-1 pair `off` samples before its end.
Samples(sig) ==
    [k \in 1..sig.n |->
        CASE sig.kind = "flat" -> 0
          [] sig.kind = "alternating" -> k % 2
          [] sig.kind = "pair" ->
                IF k = sig.n - sig.off THEN 1
                ELSE IF k = sig.n - sig.off + 1 THEN -1 ELSE 0]

SignalsOfLen(lens) ==
    [kind : {"flat", "alternating"}, n : lens, off : {0}]
        \cup [kind : {"pair"}, n : lens, off : 1..MaxPairOffset]

DfaSignals ==
    [kind : {"flat"}, n : {MinDataLen - 1, MinDataLen}, off : {0}]
        \cup [kind : {"pair"}, n : MinDataLen..(MinDataLen + MaxExtraLen),
              off : 1..MaxPairOffset]

\* Direct calls are made on short signals and on signals of 20 samples.
DirectSignals == SignalsOfLen(0..MaxDirectLen) \cup SignalsOfLen({20})

MinScaleChoices == {2, 30}

MaxScaleChoices == {10}

NScalesChoices == {10}

----------------------------------------------------------------------------
(* calculate_dfa_direct                                                    *)

\* The largest k in low..high with k^m <= target, low satisfying it.
RECURSIVE LargestRoot(_, _, _, _)
LargestRoot(low, high, m, target) ==
    IF low >= high THEN low
    ELSE LET mid == (low + high + 1) \div 2
         IN  IF BigLeq(BigPowMul(<<1>>, mid, m), target)
             THEN LargestRoot(mid, high, m, target)
             ELSE LargestRoot(low, mid - 1, m, target)

\* np.logspace(log10(lo), log10(hi), n).astype(int)[i], i = 0..n-1: the
\* integer part of lo * (hi/lo)^(i/(n-1)), i.e. the largest k with
\* k^(n-1) <= lo^(n-1-i) * hi^i, which lies between lo and hi.
LogScaleAt(lo, hi, n, i) ==
    IF n = 1 THEN lo
    ELSE LargestRoot(Min2(lo, hi), Max2(lo, hi), n - 1,
                     BigPowMul(BigPowMul(<<1>>, lo, n - 1 - i), hi, i))

\* The scales of the parameter triples the widget can pass in this model,
\* tabulated so that each triple is computed once.
WidgetScales ==
    [lo \in MinScaleChoices \cup {4},
     hi \in MaxScaleChoices \cup (((MinDataLen - 1) \div 4)..((MinDataLen + MaxExtraLen) \div 4)),
     n \in NScalesChoices \cup {20} |->
        [i \in 1..n |-> LogScaleAt(lo, hi, n, i - 1)]]

LogScales(lo, hi, n) ==
    IF <<lo, hi, n>> \in DOMAIN WidgetScales THEN WidgetScales[lo, hi, n]
    ELSE [i \in 1..n |-> LogScaleAt(lo, hi, n, i - 1)]

\* np.cumsum(data - np.mean(data)), every value multiplied by len(data) so
\* that it stays an integer: entry k is N * (d[1] + .. + d[k]) - k * S with
\* S = sum(data).  IntegratedRange gives entries a..b, `before` being
\* d[1] + .. + d[a-1].
RECURSIVE IntegratedRange(_, _, _, _, _, _)
IntegratedRange(d, N, S, a, b, before) ==
    IF a > b THEN <<>>
    ELSE IF a = b THEN <<N * (before + d[a]) - a * S>>
    ELSE LET mid == (a + b) \div 2
         IN  IntegratedRange(d, N, S, a, mid, before)
                 \o IntegratedRange(d, N, S, mid + 1, b, before + SumRange(d, a, mid))

Integrated(d) == IntegratedRange(d, Len(d), SumRange(d, 1, Len(d)), 1, Len(d), 0)

\* np.sum((segment - polyval(polyfit(t, segment, 1), t)) ** 2) for the
\* segment integrated[first+1 .. first+scale] is zero exactly when the
\* least-squares line passes through every point of the segment.
ResidualIsZero(integrated, first, scale) ==
    \A j \in (first + 2)..(first + scale - 1) :
        integrated[j + 1] - integrated[j] = integrated[j] - integrated[j - 1]

\* Whether a scale with this many segments is skipped.
SkipScale(n_segments) == n_segments < 1

\* The signs had fluctuations started from np.ones: a skipped scale keeps 1.
FluctuationSignFromOnes(integrated, scale) ==
    LET n_segments == Len(integrated) \div scale
    IN  IF SkipScale(n_segments) THEN 1
        ELSE IF \A g \in 0..(n_segments - 1) :
                    ResidualIsZero(integrated, g * scale, scale)
             THEN 0 ELSE 1

\* Sign of fluctuations[i] for one scale: 0 when the scale is skipped (the
\* entry keeps np.zeros' value) or every segment's residual is zero, else 1.
FluctuationSign(integrated, scale) ==
    LET n_segments == Len(integrated) \div scale
    IN  IF SkipScale(n_segments) THEN 0
        ELSE IF \A g \in 0..(n_segments - 1) :
                    ResidualIsZero(integrated, g * scale, scale)
             THEN 0 ELSE 1

\* The alpha branch: a regression slope when more than MinValidPairs
\* (scale, fluctuation) pairs are left, else NaN.
FitsAlphaFromTwo(n_valid) == n_valid >= MinValidPairs

FitsAlpha(n_valid) == n_valid > MinValidPairs

CalculateDfaDirect(data, min_scale, max_scale, n_scales) ==
    LET integrated == Integrated(data)
        all_scales == LogScales(min_scale, max_scale, n_scales)
        signs      == [i \in 1..n_scales |-> FluctuationSign(integrated, all_scales[i])]
        valid      == [i \in 1..n_scales |-> signs[i] > 0]
        kept       == SelectIdx(all_scales, valid, 1, n_scales)
    IN  [scales       |-> kept,
         fluctuations |-> SelectIdx(signs, valid, 1, n_scales),
         alpha        |-> IF FitsAlpha(Len(kept)) THEN "slope" ELSE "NaN"]

----------------------------------------------------------------------------
(* DFAAnalysis: the widget's handlers.                                     *)

DfaWidgetInit ==
    /\ current_data = None
    /\ min_scale_spin = 4
    /\ max_scale_spin = [hi |-> MaxScaleHi, val |-> 1000]
    /\ n_scales_spin = 20
    /\ scales = None
    /\ fluctuations = None
    /\ alpha = "None"
    /\ stats_text = ""
    /\ dfa_params = None
    /\ dfa_return = None

\* update_data, with the processor handing over `data` (None when it has no
\* data for the channel or raises, else Some(signal)): the max-scale spin
\* box is capped at len // 4, which lowers its value when that lies above
\* the cap.
UpdateData(data) ==
    /\ current_data' = data
    /\ max_scale_spin' =
          IF data = None THEN max_scale_spin
          ELSE LET max_possible == data[1].n \div 4
               IN  [hi  |-> max_possible,
                    val |-> Min2(max_scale_spin.val, max_possible)]
    /\ UNCHANGED <<min_scale_spin, n_scales_spin, scales, fluctuations, alpha,
                   stats_text, dfa_params, dfa_return>>

\* set_timeframe: as update_data, except that the data is kept when the
\* processor has none for the timeframe.
SetTimeframe(data) ==
    IF data = None THEN UNCHANGED vars ELSE UpdateData(data)

\* The three spin boxes edited by the user, each inside its range.
SetMinScale(v) ==
    /\ v \in MinScaleLo..MinScaleHi
    /\ min_scale_spin' = v
    /\ UNCHANGED <<current_data, max_scale_spin, n_scales_spin, scales,
                   fluctuations, alpha, stats_text, dfa_params, dfa_return>>

SetMaxScale(v) ==
    /\ v \in MaxScaleLo..max_scale_spin.hi
    /\ max_scale_spin' = [max_scale_spin EXCEPT !.val = v]
    /\ UNCHANGED <<current_data, min_scale_spin, n_scales_spin, scales,
                   fluctuations, alpha, stats_text, dfa_params, dfa_return>>

SetNScales(v) ==
    /\ v \in NScalesLo..NScalesHi
    /\ n_scales_spin' = v
    /\ UNCHANGED <<current_data, min_scale_spin, max_scale_spin, scales,
                   fluctuations, alpha, stats_text, dfa_params, dfa_return>>

\* The guard of calculate_dfa on the data length.
TooShort(n_samples) == n_samples < MinDataLen

\* calculate_dfa: the two early returns leave every result in place; past
\* them the results are cleared, the parameters read and the DFA computed.
\* update_results ends in an IndexError, caught by the handler, when no
\* scale is left (it formats self.scales[0]).
CalculateDfa ==
    IF current_data = None THEN
        /\ stats_text' = "no data"
        /\ UNCHANGED <<current_data, min_scale_spin, max_scale_spin, n_scales_spin,
                       scales, fluctuations, alpha, dfa_params, dfa_return>>
    ELSE IF TooShort(current_data[1].n) THEN
        /\ stats_text' = "insufficient data"
        /\ UNCHANGED <<current_data, min_scale_spin, max_scale_spin, n_scales_spin,
                       scales, fluctuations, alpha, dfa_params, dfa_return>>
    ELSE
        LET min_scale == min_scale_spin
            max_scale == Min2(max_scale_spin.val, current_data[1].n \div 4)
            n_scales  == n_scales_spin
            r == CalculateDfaDirect(Samples(current_data[1]), min_scale, max_scale, n_scales)
        IN  /\ dfa_params' = Some([min_scale |-> min_scale, max_scale |-> max_scale,
                                   n_scales |-> n_scales])
            /\ scales' = Some(r.scales)
            /\ fluctuations' = Some(r.fluctuations)
            /\ alpha' = r.alpha
            /\ stats_text' = IF Len(r.scales) = 0 THEN "error" ELSE "statistics"
            /\ UNCHANGED <<current_data, min_scale_spin, max_scale_spin,
                           n_scales_spin, dfa_return>>

DfaStep ==
    \/ \E d \in {Some(x) : x \in DfaSignals} \cup {None} : UpdateData(d)
    \/ \E d \in {Some(x) : x \in DfaSignals} \cup {None} : SetTimeframe(d)
    \/ \E v \in MinScaleChoices : SetMinScale(v)
    \/ \E v \in MaxScaleChoices : SetMaxScale(v)
    \/ \E v \in NScalesChoices : SetNScales(v)
    \/ CalculateDfa

----------------------------------------------------------------------------
(* calculate_dfa_direct called on its own, on any current data.            *)

DirectWidgetInit ==
    /\ current_data \in {Some(x) : x \in DirectSignals}
    /\ min_scale_spin = 4
    /\ max_scale_spin = [hi |-> MaxScaleHi, val |-> 1000]
    /\ n_scales_spin = 20
    /\ scales = None
    /\ fluctuations = None
    /\ alpha = "None"
    /\ stats_text = ""
    /\ dfa_params = None
    /\ dfa_return = None

CallDfaDirect(min_scale, max_scale, n_scales) ==
    /\ dfa_return' =
          Some([min_scale |-> min_scale, max_scale |-> max_scale,
                n_scales |-> n_scales,
                result |-> CalculateDfaDirect(Samples(current_data[1]), min_scale,
                                              max_scale, n_scales)])
    /\ UNCHANGED <<current_data, min_scale_spin, max_scale_spin, n_scales_spin,
                   scales, fluctuations, alpha, stats_text, dfa_params>>

DirectStep ==
    \/ \E lo \in 1..MaxDirectScale, hi \in 1..MaxDirectScale,
           n \in 1..MaxDirectN :
          CallDfaDirect(lo, hi, n)
    \/ CallDfaDirect(4, 10, 2)

----------------------------------------------------------------------------
(* BandSpikes: the spike-detection widget.                                 *)
(*                                                                         *)
(* The analyzer is the widget's collaborator: each call of its             *)
(* calculate_band_power returns a power series, an empty series or None,   *)
(* or raises.  Times are whole ticks, TicksPerSecond to the second, chosen *)
(* so that every np.linspace point of the model is a whole number.         *)

ThresholdLo == 10        \* threshold_spinbox.setRange(10, 50), tenths
ThresholdHi == 50
DefaultThreshold == 20   \* threshold_multiplier = 2.0

MaxSeries == 7           \* power series of 1..MaxSeries values
MaxDuration == 2         \* recording durations 0..MaxDuration seconds

PowerLevels == {0, 1}

ThresholdChoices == {10}

\* A flat series with two unequal peaks, at i and at j.
TwoPeakSeries ==
    {[k \in 1..n |-> IF k = i THEN 3 ELSE IF k = j THEN 4 ELSE 0] :
        n \in 2..MaxSeries, i \in 1..MaxSeries, j \in 1..MaxSeries}

PowerSeries ==
    UNION {[1..n -> PowerLevels] : n \in 1..MaxSeries} \cup TwoPeakSeries

AnalyzerOutcomes == {"series", "empty", "none", "raise"}

RECURSIVE Gcd(_, _)
Gcd(a, b) == IF b = 0 THEN a ELSE Gcd(b, a % b)

RECURSIVE LcmUpTo(_)
LcmUpTo(k) ==
    IF k <= 1 THEN 1
    ELSE LET l == LcmUpTo(k - 1) IN (l * k) \div Gcd(l, k)

TicksPerSecond == 2 * LcmUpTo(MaxSeries - 1)

\* The 0.5 seconds of the grouping loop.
HalfSecond == TicksPerSecond \div 2

\* power[i] > np.mean(power) + (mult10 / 10) * np.std(power), with S the sum
\* and Q the sum of squares of the n values: np.std is sqrt(n*Q - S*S) / n,
\* so the test is 10 * (n*p - S) > mult10 * sqrt(n*Q - S*S).
BelowThreshold(power, i, mult10) ==
    LET n == Len(power)
        S == SumRange(power, 1, n)
        Q == SumRange([k \in 1..n |-> power[k] * power[k]], 1, n)
        lhs == n * power[i] - S
    IN  \/ lhs <= 0
        \/ 100 * lhs * lhs < mult10 * mult10 * (n * Q - S * S)

AboveThreshold(power, i, mult10) ==
    LET n == Len(power)
        S == SumRange(power, 1, n)
        Q == SumRange([k \in 1..n |-> power[k] * power[k]], 1, n)
        lhs == n * power[i] - S
    IN  /\ lhs > 0
        /\ 100 * lhs * lhs > mult10 * mult10 * (n * Q - S * S)

\* np.where(power_data > threshold)[0]: the indices, from 0, in order.
SpikeIndices(power, mult10) ==
    SelectIdx([i \in 1..Len(power) |-> i - 1],
              [i \in 1..Len(power) |-> AboveThreshold(power, i, mult10)],
              1, Len(power))

\* np.linspace(0, d, n)[i], i from 0, in ticks.
TimeAt(i, d, n) ==
    IF n = 1 THEN 0 ELSE (i * d * TicksPerSecond) \div (n - 1)

\* The test of the grouping loop.
StartsNewEventAtHalfSecond(spike_time, current_spike) ==
    spike_time - current_spike >= HalfSecond

StartsNewEvent(spike_time, current_spike) ==
    spike_time - current_spike > HalfSecond

\* A grouping loop that records each group by its last time.
RECURSIVE GroupFromLast(_, _, _, _)
GroupFromLast(times, j, current_spike, events) ==
    IF j > Len(times) THEN Append(events, times[Len(times)])
    ELSE IF StartsNewEvent(times[j], current_spike)
         THEN GroupFromLast(times, j + 1, times[j],
                            Append(events, times[j - 1]))
         ELSE GroupFromLast(times, j + 1, current_spike, events)

\* The grouping loop from spike_times[j] on, current_spike being the time
\* the open group started at and events the list so far.
RECURSIVE GroupFrom(_, _, _, _)
GroupFrom(times, j, current_spike, events) ==
    IF j > Len(times) THEN Append(events, current_spike)
    ELSE IF StartsNewEvent(times[j], current_spike)
         THEN GroupFrom(times, j + 1, times[j], Append(events, current_spike))
         ELSE GroupFrom(times, j + 1, current_spike, events)

\* A loop that measures each time against the one before it.
RECURSIVE ChainFrom(_, _, _)
ChainFrom(times, j, events) ==
    IF j > Len(times) THEN events
    ELSE IF StartsNewEvent(times[j], times[j - 1])
         THEN ChainFrom(times, j + 1, Append(events, times[j]))
         ELSE ChainFrom(times, j + 1, events)

GroupNearbyChained(times) ==
    IF Len(times) = 0 THEN <<>> ELSE ChainFrom(times, 2, <<times[1]>>)

GroupNearby(times) ==
    IF Len(times) = 0 THEN <<>> ELSE GroupFrom(times, 2, times[1], <<>>)

\* spike_times of detect_spikes: time_vector[spike_indices] for a series
\* `power`, a multiplier of mult10 tenths and a duration of d seconds.
SpikeTimesOf(power, mult10, d) ==
    LET spike_indices == SpikeIndices(power, mult10)
    IN  [k \in 1..Len(spike_indices) |->
            TimeAt(spike_indices[k], d, Len(power))]

\* The spike_events detect_spikes ends with for that series.
SpikeEventsOf(power, mult10, d) == GroupNearby(SpikeTimesOf(power, mult10, d))

SpikesWidgetInit ==
    /\ sp_analyzer = None
    /\ duration = 0
    /\ threshold_multiplier = DefaultThreshold
    /\ power_data = [kind |-> "unset", value |-> <<>>]
    /\ spike_times = <<>>
    /\ spike_events = <<>>
    /\ spike_count_label = 0

\* set_analyzer, with an analyzer whose processor reports duration d and
\* whose band power for the recording is `series`; one recording is loaded
\* per behaviour.
SetAnalyzer(series, d) ==
    /\ sp_analyzer = None
    /\ sp_analyzer' = Some(series)
    /\ duration' = d
    /\ UNCHANGED <<threshold_multiplier, power_data, spike_times, spike_events,
                   spike_count_label>>

SetTimeWindow(total_duration) ==
    /\ duration' = total_duration
    /\ UNCHANGED <<sp_analyzer, threshold_multiplier, power_data, spike_times,
                   spike_events, spike_count_label>>

\* on_threshold_changed: value / 10.0, kept in tenths.
OnThresholdChanged(value) ==
    /\ value \in ThresholdLo..ThresholdHi
    /\ threshold_multiplier' = value
    /\ UNCHANGED <<sp_analyzer, duration, power_data, spike_times, spike_events,
                   spike_count_label>>

\* clear_plot; spike_times follows spike_events, being the times the events
\* on display were grouped from.
ClearPlot ==
    /\ spike_events' = <<>>
    /\ spike_count_label' = 0
    /\ spike_times' = <<>>
    /\ UNCHANGED <<sp_analyzer, duration, threshold_multiplier, power_data>>

\* Whether detect_spikes enters its detection block.
HasPower(returned) == returned.kind = "series" /\ Len(returned.value) > 0

\* detect_spikes, the analyzer's call ending in `outcome`.
DetectSpikes(outcome) ==
    IF sp_analyzer = None THEN UNCHANGED vars
    ELSE
        LET returned ==
                [kind  |-> IF outcome = "empty" THEN "series" ELSE outcome,
                 value |-> IF outcome = "series" THEN sp_analyzer[1] ELSE <<>>]
            times == SpikeTimesOf(returned.value, threshold_multiplier,
                                  duration)
            events == GroupNearby(times)
        IN  /\ power_data' = returned
            /\ IF HasPower(returned)
               THEN /\ spike_times' = times
                    /\ spike_events' = events
                    /\ spike_count_label' = Len(events)
               ELSE UNCHANGED <<spike_times, spike_events, spike_count_label>>
            /\ UNCHANGED <<sp_analyzer, duration, threshold_multiplier>>

SpikesStep ==
    \/ \E s \in PowerSeries, d \in 0..MaxDuration : SetAnalyzer(s, d)
    \/ \E d \in 0..MaxDuration : SetTimeWindow(d)
    \/ \E v \in ThresholdChoices \cup {DefaultThreshold} : OnThresholdChanged(v)
    \/ \E o \in AnalyzerOutcomes : DetectSpikes(o)
    \/ ClearPlot

----------------------------------------------------------------------------
(* Sliding-window band power: PowerAnalyzer (eeg/analysis/power_analyzer), *)
(* EEGAnalyzer.calculate_alpha_power_sliding (eeg/analyzer.py) and         *)
(* AnalysisPanel.calculate_band_power (gui/analysis_panel.py).             *)
(*                                                                         *)
(* A recording is its sampling rate and its number of samples; the sample  *)
(* values are left open, so a band power is "0.0", "NaN" or "computed" (a  *)
(* number obtained from the spectrum).  Lengths in seconds are counted in  *)
(* half seconds and frequencies in half Hertz.                             *)

NpersegCap == 512          \* nperseg = min(len(data), 512)
DefaultWindowHalves == 4   \* window_size = 2.0, window_length = 2.0
DefaultStepHalves == 1     \* step_size = 0.5
DefaultOverlapHalves == 1  \* overlap = 0.5

MaxSamples == 8            \* recordings of 0..MaxSamples samples at 1 or 2 Hz
MaxSeconds == 3            \* recordings of 0..MaxSeconds seconds at 40 Hz
MaxWindowHalves == 4       \* windows of 1..MaxWindowHalves half seconds
MaxStepHalves == 2         \* steps, overlaps of -1..MaxStepHalves half seconds

\* At 1 and 2 Hz no bin reaches the bands; at 40 Hz the spectrum does.
Recordings ==
    [sfreq : {1, 2}, n : 0..MaxSamples]
        \cup [sfreq : {40}, n : {40 * k : k \in 0..MaxSeconds}]

BandNames == {"Alpha", "Gamma", "Unknown"}

\* FrequencyBands.get_band_info: the band's range in half Hertz, Alpha's
\* for a name that is not registered.
GetBandInfo(band_name) ==
    CASE band_name = "Delta" -> [low |-> 1, high |-> 8]
      [] band_name = "Theta" -> [low |-> 8, high |-> 16]
      [] band_name = "Alpha" -> [low |-> 16, high |-> 26]
      [] band_name = "Beta"  -> [low |-> 26, high |-> 60]
      [] band_name = "Gamma" -> [low |-> 60, high |-> 80]
      [] OTHER -> [low |-> 16, high |-> 26]

\* Python's int(num / den) for den > 0: rounding towards zero.
IntTrunc(num, den) ==
    IF num >= 0 THEN num \div den ELSE -((-num) \div den)

\* len(range(0, stop, step)) for step # 0.
RangeLen(stop, step) ==
    IF step > 0 THEN (IF stop <= 0 THEN 0 ELSE (stop - 1) \div step + 1)
    ELSE (IF stop >= 0 THEN 0 ELSE (-stop - 1) \div (-step) + 1)

\* len(data[start:end]) for len(data) = n, with Python's negative indices.
PySliceLen(n, start, end) ==
    LET s == IF start < 0 THEN Max2(start + n, 0) ELSE Min2(start, n)
        e == IF end < 0 THEN Max2(end + n, 0) ELSE Min2(end, n)
    IN  Max2(e - s, 0)

\* The bins k of welch's freqs = k * sfreq / nperseg, k = 0..nperseg // 2,
\* kept by (freqs >= low) & (freqs <= high); none for an empty segment.
BinsInBand(sfreq, nperseg, band) ==
    IF nperseg <= 0 THEN {}
    ELSE {k \in 0..(nperseg \div 2) :
            /\ 2 * k * sfreq >= band.low * nperseg
            /\ 2 * k * sfreq <= band.high * nperseg}

\* PowerAnalyzer.calculate_band_power on data_len samples: np.trapz over the
\* band's bins (0.0 for fewer than two), 0.0 when the estimation raises.
CalculateBandPower(data_len, sfreq, band_name, fails) ==
    IF fails THEN "0.0"
    ELSE LET bins == BinsInBand(sfreq, Min2(data_len, NpersegCap),
                                GetBandInfo(band_name))
         IN  IF Cardinality(bins) < 2 THEN "0.0" ELSE "computed"

\* The windows of `for start in range(0, n - window_samples + 1, step)`:
\* the slice bounds and the number of samples the slice holds.
Windows(n, window_samples, step_samples) ==
    [k \in 1..RangeLen(n - window_samples + 1, step_samples) |->
        LET start == (k - 1) * step_samples
        IN  [start |-> start, end |-> start + window_samples,
             len |-> PySliceLen(n, start, start + window_samples)]]

PotStepSamples(step_size, sfreq) == IntTrunc(step_size * sfreq, 2)

\* PowerAnalyzer.calculate_power_over_time; range() raises on a zero step,
\* which the handler turns into an empty array.
CalculatePowerOverTime(rec, band_name, window_size, step_size, fails) ==
    LET window_samples == IntTrunc(window_size * rec.sfreq, 2)
        step_samples == PotStepSamples(step_size, rec.sfreq)
        windows == IF step_samples = 0 THEN <<>>
                   ELSE Windows(rec.n, window_samples, step_samples)
    IN  [kind |-> "array",
         window_samples |-> window_samples,
         step_samples |-> step_samples,
         windows |-> windows,
         times |-> <<>>,
         values |-> [k \in 1..Len(windows) |->
                        CalculateBandPower(windows[k].len, rec.sfreq,
                                           band_name, fails)]]

SlidingStepOverlapOnly(window_samples, overlap_samples) == overlap_samples

\* step_samples = window_samples - overlap_samples of the two sliding loops.
SlidingStep(window_samples, overlap_samples) ==
    window_samples - overlap_samples

\* The sliding loop shared by EEGAnalyzer.calculate_alpha_power_sliding
\* (guarded = FALSE: np.mean of the band's bins) and
\* AnalysisPanel.calculate_band_power (guarded = TRUE: 0.0 without bins).
\* welch takes nperseg = window_samples, cut to the slice when that is
\* shorter; times[start + window_samples // 2] is the sample index paired
\* with the window.  (None, None) when anything in the loop raises.
SlidingBandPower(rec, band, window_length, overlap, guarded, fails) ==
    LET window_samples == IntTrunc(window_length * rec.sfreq, 2)
        overlap_samples == IntTrunc(overlap * rec.sfreq, 2)
        step_samples == SlidingStep(window_samples, overlap_samples)
        windows == IF step_samples = 0 THEN <<>>
                   ELSE Windows(rec.n, window_samples, step_samples)
        time_index == [k \in 1..Len(windows) |->
                          windows[k].start + window_samples \div 2]
        raises ==
            \/ step_samples = 0
            \/ Len(windows) > 0 /\ fails
            \/ \E k \in 1..Len(windows) :
                  time_index[k] >= rec.n \/ time_index[k] < -rec.n
        power(k) ==
            LET bins == BinsInBand(rec.sfreq,
                                   Min2(windows[k].len, window_samples), band)
            IN  IF bins = {} THEN (IF guarded THEN "0.0" ELSE "NaN")
                ELSE "computed"
    IN  IF raises
        THEN [kind |-> "none", window_samples |-> window_samples,
              step_samples |-> step_samples, windows |-> <<>>,
              times |-> <<>>, values |-> <<>>]
        ELSE [kind |-> "array", window_samples |-> window_samples,
              step_samples |-> step_samples, windows |-> windows,
              times |-> [k \in 1..Len(windows) |->
                            IF time_index[k] < 0 THEN time_index[k] + rec.n
                            ELSE time_index[k]],
              values |-> [k \in 1..Len(windows) |-> power(k)]]

\* Nothing has been computed on the recording yet.
PowerIdleInit ==
    /\ pw_recording = [sfreq |-> 1, n |-> 0]
    /\ sliding = None

PowerCallsInit ==
    /\ pw_recording \in Recordings
    /\ sliding = None

\* One call of each function on the recording, recorded with its arguments.
CallBandPower(band_name, fails) ==
    /\ sliding = None
    /\ sliding' = Some([op |-> "calculate_band_power", band |-> GetBandInfo(band_name),
                        window |-> 0, step |-> 0, fails |-> fails,
                        result |-> [kind |-> "value", window_samples |-> pw_recording.n,
                                    step_samples |-> 0,
                                    windows |-> <<[start |-> 0, end |-> pw_recording.n,
                                                   len |-> pw_recording.n]>>,
                                    times |-> <<>>,
                                    values |-> <<CalculateBandPower(pw_recording.n,
                                                     pw_recording.sfreq, band_name, fails)>>]])
    /\ UNCHANGED pw_recording

CallPowerOverTime(band_name, window_size, step_size, fails) ==
    /\ sliding = None
    /\ sliding' = Some([op |-> "calculate_power_over_time", band |-> GetBandInfo(band_name),
                        window |-> window_size, step |-> step_size, fails |-> fails,
                        result |-> CalculatePowerOverTime(pw_recording, band_name,
                                       window_size, step_size, fails)])
    /\ UNCHANGED pw_recording

CallAlphaPowerSliding(window_length, overlap, fails) ==
    /\ sliding = None
    /\ sliding' = Some([op |-> "calculate_alpha_power_sliding", band |-> GetBandInfo("Alpha"),
                        window |-> window_length, step |-> overlap, fails |-> fails,
                        result |-> SlidingBandPower(pw_recording, GetBandInfo("Alpha"),
                                       window_length, overlap, FALSE, fails)])
    /\ UNCHANGED pw_recording

CallPanelBandPower(band_name, fails) ==
    /\ sliding = None
    /\ sliding' = Some([op |-> "panel_band_power", band |-> GetBandInfo(band_name),
                        window |-> DefaultWindowHalves, step |-> DefaultOverlapHalves,
                        fails |-> fails,
                        result |-> SlidingBandPower(pw_recording, GetBandInfo(band_name),
                                       DefaultWindowHalves, DefaultOverlapHalves,
                                       TRUE, fails)])
    /\ UNCHANGED pw_recording

PowerStep ==
    \/ \E b \in BandNames, f \in BOOLEAN : CallBandPower(b, f)
    \/ \E b \in BandNames, w \in 1..MaxWindowHalves, s \in (-1)..MaxStepHalves,
          f \in BOOLEAN : CallPowerOverTime(b, w, s, f)
    \/ \E w \in 1..MaxWindowHalves, o \in (-1)..MaxStepHalves, f \in BOOLEAN :
          CallAlphaPowerSliding(w, o, f)
    \/ \E b \in BandNames, f \in BOOLEAN : CallPanelBandPower(b, f)

----------------------------------------------------------------------------
(* PowerPlot: the band-power curve over time (gui/analysis/power_plot.py). *)
(*                                                                         *)
(* The recordings plotted are sampled at 2 Hz, so that sample              *)
(* i is at i half seconds; all times of the widget are in half seconds.    *)
(* A plotted time is the ratio num / den.                                  *)

MaxPlotSamples == 7        \* recordings of 1..MaxPlotSamples samples
MaxPlotTime == 4           \* timeframe bounds and durations 0..MaxPlotTime

\* analyzer.calculate_band_power(band, channel_idx, start_time, end_time),
\* which the widget calls and the sources do not hold: the windows of
\* power_over_time (2 s long, 0.5 s apart, complete ones only) over the
\* samples int(start_time * sfreq) .. int(end_time * sfreq) - 1 of the
\* recording, or over all of it without a timeframe; each window is given
\* by its first and last-plus-one sample in the recording.
EnhancedBandPower(rec, timeframe) ==
    LET first == IF timeframe = None THEN 0
                 ELSE Min2(IntTrunc(timeframe[1].start * rec.sfreq, 2), rec.n)
        stop  == IF timeframe = None THEN rec.n
                 ELSE Min2(IntTrunc(timeframe[1].end * rec.sfreq, 2), rec.n)
        window_samples == IntTrunc(DefaultWindowHalves * rec.sfreq, 2)
        step_samples == IntTrunc(DefaultStepHalves * rec.sfreq, 2)
        windows == Windows(Max2(stop - first, 0), window_samples, step_samples)
    IN  [k \in 1..Len(windows) |->
            [start |-> first + windows[k].start, end |-> first + windows[k].end]]

\* np.linspace(start, stop, num)[i], i from 0.
Linspace(start, stop, num, i) ==
    IF num = 1 THEN [num |-> start, den |-> 1]
    ELSE [num |-> start * (num - 1) + i * (stop - start), den |-> num - 1]

\* update_plot: the curve drawn, None when the plot is left cleared.  Point
\* k pairs the k-th power value, whose window it records, with a time.
UpdatePlot(analyzer, total_duration, start, end) ==
    LET use_timeframe == start > 0 \/ end < total_duration
        timeframe == IF use_timeframe THEN Some([start |-> start, end |-> end])
                     ELSE None
        power_windows == EnhancedBandPower(analyzer[1], timeframe)
        n == Len(power_windows)
    IN  IF n = 0 THEN None
        ELSE Some([k \in 1..n |->
                    [time |-> IF use_timeframe THEN Linspace(start, end, n, k - 1)
                              ELSE Linspace(0, total_duration, n, k - 1),
                     window |-> power_windows[k]]])

PlotWidgetInit ==
    /\ plot_analyzer = None
    /\ plot_duration = 0
    /\ timeframe_start = 0
    /\ timeframe_end = 0
    /\ plot_curve = None

\* set_analyzer, the processor holding `rec`: get_duration is the time of
\* the last sample.
PlotSetAnalyzer(rec) ==
    LET d == rec.n - 1
    IN  /\ plot_analyzer' = Some(rec)
        /\ plot_duration' = d
        /\ timeframe_end' = d
        /\ plot_curve' = UpdatePlot(Some(rec), d, timeframe_start, d)
        /\ UNCHANGED timeframe_start

PlotSetTimeWindow(total_duration) ==
    /\ plot_duration' = total_duration
    /\ plot_curve' = IF plot_analyzer = None THEN plot_curve
                     ELSE UpdatePlot(plot_analyzer, total_duration,
                                     timeframe_start, timeframe_end)
    /\ UNCHANGED <<plot_analyzer, timeframe_start, timeframe_end>>

PlotSetTimeframe(start_time, end_time) ==
    LET s == Max2(0, start_time)
        e == IF plot_duration > 0 THEN Min2(end_time, plot_duration) ELSE end_time
    IN  /\ timeframe_start' = s
        /\ timeframe_end' = e
        /\ plot_curve' = IF plot_analyzer = None THEN plot_curve
                         ELSE UpdatePlot(plot_analyzer, plot_duration, s, e)
        /\ UNCHANGED <<plot_analyzer, plot_duration>>

PlotStep ==
    \/ \E n \in 1..MaxPlotSamples : PlotSetAnalyzer([sfreq |-> 2, n |-> n])
    \/ \E d \in 0..MaxPlotTime : PlotSetTimeWindow(d)
    \/ \E s \in 0..MaxPlotTime, e \in 0..MaxPlotTime : PlotSetTimeframe(s, e)

----------------------------------------------------------------------------
(* AllBandsPower (gui/analysis/all_bands_power.py): the comparison plot of *)
(* the five bands, each normalised on its own.  Power values are whole     *)
(* numbers and a normalised value is the exact fraction num / den.  One    *)
(* recording is loaded per behaviour and its power is the same series in   *)
(* every band.                                                             *)

MaxBandSeries == 3         \* band power series of 0..MaxBandSeries values
MaxBandPower == 2          \* power values 0..MaxBandPower

AllBands == {"Alpha", "Beta", "Theta", "Delta", "Gamma"}

BandPowerSeries == UNION {[1..n -> 0..MaxBandPower] : n \in 0..MaxBandSeries}

\* What analyzer.calculate_band_power does in update_plot: return the
\* series, return None, or raise.
BandPowerOutcomes == {"series", "none", "raise"}

\* np.min and np.max of a non-empty series.
NpMin(power) ==
    CHOOSE m \in {power[k] : k \in 1..Len(power)} :
        \A k \in 1..Len(power) : m <= power[k]

NpMax(power) ==
    CHOOSE m \in {power[k] : k \in 1..Len(power)} :
        \A k \in 1..Len(power) : m >= power[k]

\* A normalisation that divides by the maximum.
NormalizedByMax(power) ==
    LET min_power == NpMin(power)
        max_power == NpMax(power)
    IN  IF max_power > min_power
        THEN [k \in 1..Len(power) |->
                 [num |-> power[k] - min_power, den |-> max_power]]
        ELSE [k \in 1..Len(power) |-> [num |-> power[k], den |-> 1]]

\* normalized_power of update_plot for a non-empty series.
NormalizedPower(power) ==
    LET min_power == NpMin(power)
        max_power == NpMax(power)
    IN  IF max_power > min_power
        THEN [k \in 1..Len(power) |->
                 [num |-> power[k] - min_power,
                  den |-> max_power - min_power]]
        ELSE [k \in 1..Len(power) |-> [num |-> power[k], den |-> 1]]

\* update_plot with the widget's fields as given, the analyzer's calls
\* ending in `outcome`: a curve for every visible band, none after an
\* exception.
UpdateAllBands(analyzer, visibility, outcome) ==
    IF analyzer = None
    THEN UNCHANGED <<band_power_data, all_power_data>>
    ELSE LET returned ==
                 [kind  |-> outcome,
                  value |-> IF outcome = "series" THEN analyzer[1] ELSE <<>>]
         IN  /\ band_power_data' = returned
             /\ all_power_data' =
                    IF returned.kind = "series" /\ Len(returned.value) > 0
                    THEN [b \in {c \in AllBands : visibility[c]} |->
                             NormalizedPower(returned.value)]
                    ELSE <<>>

AllBandsWidgetInit ==
    /\ ab_analyzer = None
    /\ band_visibility = [b \in AllBands |-> TRUE]
    /\ band_power_data = [kind |-> "unset", value |-> <<>>]
    /\ all_power_data = <<>>

\* set_analyzer with an analyzer whose band power is `series`.
AllBandsSetAnalyzer(series, outcome) ==
    /\ ab_analyzer = None
    /\ ab_analyzer' = Some(series)
    /\ UNCHANGED band_visibility
    /\ UpdateAllBands(Some(series), band_visibility, outcome)

ToggleBandVisibility(band_name, state, outcome) ==
    /\ band_visibility' = [band_visibility EXCEPT ![band_name] = state]
    /\ UNCHANGED ab_analyzer
    /\ UpdateAllBands(ab_analyzer, band_visibility', outcome)

\* set_channel, set_time_window and set_timeframe: fields that only select
\* what the analyzer is asked for, then update_plot.
AllBandsRefresh(outcome) ==
    /\ UNCHANGED <<ab_analyzer, band_visibility>>
    /\ UpdateAllBands(ab_analyzer, band_visibility, outcome)

AllBandsStep ==
    \/ \E s \in BandPowerSeries, o \in BandPowerOutcomes :
          AllBandsSetAnalyzer(s, o)
    \/ \E b \in AllBands, st \in BOOLEAN, o \in BandPowerOutcomes :
          ToggleBandVisibility(b, st, o)
    \/ \E o \in BandPowerOutcomes : AllBandsRefresh(o)

----------------------------------------------------------------------------
(* FrequencyBands (eeg/frequency_bands.py) with the band power and the     *)
(* relative power PowerAnalyzer computes from it.  The data analysed is    *)
(* given by its spectrum: psd[k] is welch's estimate at bin k, a whole     *)
(* number, the bins lying sfreq / nperseg apart.  np.trapz over a band is  *)
(* kept in units of half a bin width, so a relative power is the exact     *)
(* fraction num / den.  Band edges are in half Hertz as above.             *)

MaxPsd == 1                \* spectral estimates 0..MaxPsd

StandardBandNames == {"Delta", "Theta", "Alpha", "Beta", "Gamma"}

\* Names a custom band is registered under, and the edges it is given:
\* 0, 8 and 40 Hz.
CustomNames == {"Wide"}

BandEdges == {0, 16, 80}

\* Names looked up.
LookupNames == {"Alpha", "Theta", "Gamma", "Wide", "Unknown"}

\* 8 samples at 32 Hz: bins at 0, 4, 8, 12 and 16 Hz.
BandRecordings ==
    {[sfreq |-> 32, n |-> 8, psd |-> p] : p \in [0..4 -> 0..MaxPsd]}

\* total_range = (0.5, 40.0)
TotalRange == [low |-> 1, high |-> 80]

\* A lookup that answers an unregistered name with an empty range.
GetBandInfoNoDefault(custom, band_name) ==
    IF band_name \in StandardBandNames THEN GetBandInfo(band_name)
    ELSE IF band_name \in DOMAIN custom THEN custom[band_name]
    ELSE [low |-> 0, high |-> 0]

\* get_band_info of a registry whose custom_bands is `custom`.
GetBandInfoIn(custom, band_name) ==
    IF band_name \in StandardBandNames THEN GetBandInfo(band_name)
    ELSE IF band_name \in DOMAIN custom THEN custom[band_name]
    ELSE GetBandInfo("Alpha")

\* np.trapz(psd[mask], freqs[mask]) for the mask `bins`, in half bin
\* widths: the masked bins are consecutive, each pair of neighbours adds
\* the sum of its two estimates.
Trapz(psd, bins) ==
    LET pairs == {k \in bins : k + 1 \in bins}
        terms == [k \in 1..Len(psd) |->
                     IF (k - 1) \in pairs THEN psd[k] + psd[k + 1] ELSE 0]
    IN  SumRange(terms, 1, Len(psd))

\* welch's estimates as a sequence, bin k at index k + 1.
PsdOf(rec) == [k \in 1..(rec.n \div 2 + 1) |-> rec.psd[k - 1]]

\* calculate_band_power: the band looked up, the bins masked and the
\* power; 0.0 when the estimation raises.
BandPowerIn(custom, rec, band_name, fails) ==
    LET band_info == GetBandInfoIn(custom, band_name)
        bins == BinsInBand(rec.sfreq, Min2(rec.n, NpersegCap), band_info)
    IN  [band  |-> band_info,
         bins  |-> IF fails THEN {} ELSE bins,
         power |-> IF fails THEN 0 ELSE Trapz(PsdOf(rec), bins)]

\* calculate_relative_power: band power over the power in total_range,
\* 0.0 when that is not positive or the estimation raises.
RelativePower(custom, rec, band_name, fails) ==
    LET band_power == BandPowerIn(custom, rec, band_name, fails).power
        total_power ==
            Trapz(PsdOf(rec),
                  BinsInBand(rec.sfreq, Min2(rec.n, NpersegCap), TotalRange))
    IN  [band_power  |-> band_power,
         total_power |-> IF fails THEN 0 ELSE total_power,
         relative    |-> IF ~fails /\ total_power > 0
                         THEN [num |-> band_power, den |-> total_power]
                         ELSE [num |-> 0, den |-> 1]]

BandsIdleInit ==
    /\ custom_bands = <<>>
    /\ band_recording = [sfreq |-> 32, n |-> 8, psd |-> [k \in 0..4 |-> 0]]
    /\ band_call = None

BandsCallsInit ==
    /\ custom_bands = <<>>
    /\ band_recording \in BandRecordings
    /\ band_call = None

\* add_custom_band: the range is stored as given.
AddCustomBand(name, low_freq, high_freq) ==
    /\ custom_bands' =
           [b \in DOMAIN custom_bands \cup {name} |->
               IF b = name THEN [low |-> low_freq, high |-> high_freq]
               ELSE custom_bands[b]]
    /\ UNCHANGED <<band_recording, band_call>>

CallGetBandInfo(band_name) ==
    /\ band_call' = Some([op |-> "get_band_info", band_name |-> band_name,
                          result |-> GetBandInfoIn(custom_bands, band_name)])
    /\ UNCHANGED <<custom_bands, band_recording>>

CallBandPowerIn(band_name, fails) ==
    /\ band_call' =
           Some([op |-> "calculate_band_power", band_name |-> band_name,
                 result |-> BandPowerIn(custom_bands, band_recording,
                                        band_name, fails)])
    /\ UNCHANGED <<custom_bands, band_recording>>

CallRelativePower(band_name, fails) ==
    /\ band_call' =
           Some([op |-> "calculate_relative_power", band_name |-> band_name,
                 result |-> RelativePower(custom_bands, band_recording,
                                          band_name, fails)])
    /\ UNCHANGED <<custom_bands, band_recording>>

\* get_band_range: the range of get_band_info, without the colour.
GetBandRange(custom, band_name) ==
    LET band_info == GetBandInfoIn(custom, band_name)
    IN  <<band_info.low, band_info.high>>

CallGetBandRange(band_name) ==
    /\ band_call' = Some([op |-> "get_band_range", band_name |-> band_name,
                          result |-> GetBandRange(custom_bands, band_name)])
    /\ UNCHANGED <<custom_bands, band_recording>>

\* Names a band is registered under when only the registry is exercised:
\* a new name and the name of a standard band.
RegistryNames == CustomNames \cup {"Gamma"}

RegistryStep ==
    \/ \E name \in RegistryNames, lo \in BandEdges, hi \in BandEdges :
           AddCustomBand(name, lo, hi)
    \/ \E name \in LookupNames : CallGetBandRange(name)

BandsStep ==
    \/ \E name \in CustomNames, lo \in BandEdges, hi \in BandEdges :
          AddCustomBand(name, lo, hi)
    \/ \E name \in LookupNames : CallGetBandInfo(name)
    \/ \E name \in LookupNames, f \in BOOLEAN : CallBandPowerIn(name, f)
    \/ \E name \in LookupNames, f \in BOOLEAN : CallRelativePower(name, f)

----------------------------------------------------------------------------
(* The channel an analysis works on: EEGAnalyzer's                         *)
(* calculate_alpha_power_sliding(channel_idx) and DFAAnalysis.update_data  *)
(* with its current_channel.  A call's result is "result" with the channel *)
(* whose data was analysed, or "none": (None, None), current_data = None.  *)

MaxChannels == 3           \* recordings of 0..MaxChannels channels

ChannelIndices == (-(MaxChannels + 1))..(MaxChannels + 1)

\* data[idx] on an array of n rows: the row taken, from 0, or IndexError.
PyItem(n, idx) ==
    IF idx >= n \/ idx < -n THEN [raises |-> TRUE, row |-> 0]
    ELSE [raises |-> FALSE, row |-> IF idx < 0 THEN idx + n ELSE idx]

\* calculate_alpha_power_sliding: (None, None) without a recording and when
\* anything raises, else the windows' times and powers of data[channel_idx].
AlphaPowerSlidingChannel(loaded, n_channels, channel_idx) ==
    IF ~loaded THEN [kind |-> "none", channel |-> None]
    ELSE LET signal_data == PyItem(n_channels, channel_idx)
         IN  IF signal_data.raises THEN [kind |-> "none", channel |-> None]
             ELSE [kind |-> "result", channel |-> Some(signal_data.row)]

\* update_data: current_data is data[current_channel] when data has more
\* rows than current_channel, else None; None too when anything raises.
UpdateDataChannel(loaded, n_channels, channel) ==
    IF loaded /\ n_channels > channel
    THEN LET current == PyItem(n_channels, channel)
         IN  IF current.raises THEN [kind |-> "none", channel |-> None]
             ELSE [kind |-> "result", channel |-> Some(current.row)]
    ELSE [kind |-> "none", channel |-> None]

ChannelsIdleInit ==
    /\ recording_loaded = FALSE
    /\ channel_count = 0
    /\ current_channel = 0
    /\ channel_call = None
    /\ data_channel = None

ChannelsCallsInit ==
    /\ recording_loaded \in BOOLEAN
    /\ channel_count \in 0..MaxChannels
    /\ current_channel = 0
    /\ channel_call = None
    /\ data_channel = None

CallAlphaPowerSlidingChannel(channel_idx) ==
    /\ channel_call' =
           Some([op |-> "calculate_alpha_power_sliding",
                 channel_idx |-> channel_idx,
                 result |-> AlphaPowerSlidingChannel(recording_loaded,
                                                     channel_count,
                                                     channel_idx)])
    /\ UNCHANGED <<recording_loaded, channel_count, current_channel,
                   data_channel>>

\* DFAAnalysis.set_channel
DfaSetChannel(channel_idx) ==
    /\ current_channel' = channel_idx
    /\ UNCHANGED <<recording_loaded, channel_count, channel_call,
                   data_channel>>

\* update_data, called by set_analyzer: current_data becomes the row taken
\* or None.
CallUpdateData ==
    LET result == UpdateDataChannel(recording_loaded, channel_count,
                                    current_channel)
    IN  /\ channel_call' =
               Some([op |-> "update_data", channel_idx |-> current_channel,
                     result |-> result])
        /\ data_channel' = result.channel
        /\ UNCHANGED <<recording_loaded, channel_count, current_channel>>

\* DFAAnalysis.set_timeframe: current_data becomes data[current_channel] of
\* the time range, and stays as it was when there is no such row.
DfaSetTimeframe ==
    LET result == UpdateDataChannel(recording_loaded, channel_count,
                                    current_channel)
    IN  /\ data_channel' = IF result.kind = "result" THEN result.channel
                           ELSE data_channel
        /\ UNCHANGED <<recording_loaded, channel_count, current_channel,
                       channel_call>>

\* calculate_dfa on a recording long enough: it refuses without
\* current_data, else analyses current_data, the row of data_channel.
CallCalculateDfa ==
    /\ channel_call' =
           Some([op |-> "calculate_dfa", channel_idx |-> current_channel,
                 result |-> IF data_channel = None
                            THEN [kind |-> "none", channel |-> None]
                            ELSE [kind |-> "result",
                                  channel |-> data_channel]])
    /\ UNCHANGED <<recording_loaded, channel_count, current_channel,
                   data_channel>>

ChannelsStep ==
    \/ \E idx \in ChannelIndices : CallAlphaPowerSlidingChannel(idx)
    \/ \E idx \in ChannelIndices : DfaSetChannel(idx)
    \/ CallUpdateData
    \/ DfaSetTimeframe
    \/ CallCalculateDfa

----------------------------------------------------------------------------
(* TimeframeControls (gui/main_window.py): two QDoubleSpinBox of one       *)
(* decimal, so every time is a whole number of tenths of a second.  A spin *)
(* box keeps its value within 0..maximum and signals valueChanged, which   *)
(* runs on_timeframe_changed at once, whenever setValue or setMaximum      *)
(* changes the value.  The widget is threaded through the handlers as the  *)
(* record w of its fields.                                                 *)

MaxTimeframe == 4          \* durations and typed values 0..MaxTimeframe tenths

\* setMaximum(999) of init_ui, in tenths.
SpinInitialMaximum == 999 * 10

SpinBound(value, maximum) == Max2(0, Min2(value, maximum))

SpinValue(w, spin) == IF spin = "start" THEN w.start_spin ELSE w.end_spin

SpinMaximum(w, spin) == IF spin = "start" THEN w.start_max ELSE w.end_max

RECURSIVE SpinSetValue(_, _, _)
RECURSIVE OnTimeframeChanged(_, _)

\* on_timeframe_changed run for valueChanged of `sender`.
OnTimeframeChanged(w, sender) ==
    LET read == [w EXCEPT !.start_time = w.start_spin,
                          !.end_time = w.end_spin]
        ensured ==
            IF read.start_time >= read.end_time
            THEN IF sender = "start"
                 THEN LET moved == SpinSetValue(read, "end",
                                                read.start_time + 1)
                      IN  [moved EXCEPT !.end_time = moved.end_spin]
                 ELSE LET moved == SpinSetValue(read, "start",
                                                Max2(0, read.end_time - 1))
                      IN  [moved EXCEPT !.start_time = moved.start_spin]
            ELSE read
    IN  [ensured EXCEPT !.emitted =
            Append(ensured.emitted, <<ensured.start_time, ensured.end_time>>)]

\* QDoubleSpinBox.setValue: the value bounded by the range, valueChanged
\* when it differs from the value held.
SpinSetValue(w, spin, value) ==
    LET bounded == SpinBound(value, SpinMaximum(w, spin))
    IN  IF bounded = SpinValue(w, spin) THEN w
        ELSE OnTimeframeChanged(
                 IF spin = "start" THEN [w EXCEPT !.start_spin = bounded]
                 ELSE [w EXCEPT !.end_spin = bounded],
                 spin)

\* QDoubleSpinBox.setMaximum: the value is bounded anew.
SpinSetMaximum(w, spin, maximum) ==
    SpinSetValue(IF spin = "start" THEN [w EXCEPT !.start_max = maximum]
                 ELSE [w EXCEPT !.end_max = maximum],
                 spin, SpinValue(w, spin))

\* The widget as a record, nothing emitted yet, and the record written back.
TimeframeWidget ==
    [total_duration |-> tf_total_duration,
     start_time |-> tf_start_time, end_time |-> tf_end_time,
     start_spin |-> tf_start_spin.value, start_max |-> tf_start_spin.maximum,
     end_spin |-> tf_end_spin.value, end_max |-> tf_end_spin.maximum,
     emitted |-> <<>>]

TimeframeBecomes(w) ==
    /\ tf_total_duration' = w.total_duration
    /\ tf_start_time' = w.start_time
    /\ tf_end_time' = w.end_time
    /\ tf_start_spin' = [value |-> w.start_spin, maximum |-> w.start_max]
    /\ tf_end_spin' = [value |-> w.end_spin, maximum |-> w.end_max]
    /\ tf_emitted' = w.emitted

TimeframeControlsInit ==
    /\ tf_total_duration = 0
    /\ tf_start_time = 0
    /\ tf_end_time = 0
    /\ tf_start_spin = [value |-> 0, maximum |-> SpinInitialMaximum]
    /\ tf_end_spin = [value |-> 0, maximum |-> SpinInitialMaximum]
    /\ tf_emitted = <<>>

SetDuration(d) ==
    LET w0 == [TimeframeWidget EXCEPT !.total_duration = d]
        w1 == SpinSetMaximum(w0, "start", d)
        w2 == SpinSetMaximum(w1, "end", d)
        w3 == SpinSetValue(w2, "start", 0)
        w4 == SpinSetValue(w3, "end", d)
    IN  TimeframeBecomes([w4 EXCEPT !.start_time = 0, !.end_time = d])

\* The user sets a spin box to a value.
EditSpin(spin, value) ==
    TimeframeBecomes(SpinSetValue(TimeframeWidget, spin, value))

SetFullRange ==
    LET w1 == SpinSetValue(TimeframeWidget, "start", 0)
    IN  TimeframeBecomes(SpinSetValue(w1, "end", w1.total_duration))

TimeframeStep ==
    \/ \E d \in 0..MaxTimeframe : SetDuration(d)
    \/ \E spin \in {"start", "end"}, v \in 0..MaxTimeframe : EditSpin(spin, v)
    \/ SetFullRange

----------------------------------------------------------------------------
(* One load of a recording and the analyses that follow it:                *)
(* EEGLoadThread.run (gui/main_window.py) builds an EEGProcessor, filters  *)
(* it and hands it to an EEGAnalyzer; the analyses then read the           *)
(* processor's samples.  The samples are one array of whole numbers.  An   *)
(* array obtained from the processor is the record of its values and of   *)
(* whether it shares the processor's memory (a view) or not (a copy):      *)
(* the source does not say which mne's get_data gives, so both happen.     *)

MaxSessionLen == 2

MaxSessionSample == 1

MicrovoltFactor == 1000000

SessionSamples ==
    UNION {[1..n -> (0 - MaxSessionSample)..MaxSessionSample] :
               n \in 1..MaxSessionLen}

\* raw.get_data(return_times=True): the samples, as a view or as a copy.
RawGetData(raw, is_view) == [values |-> raw, view |-> is_view]

\* The in-place variant "data *= 1e6": it writes through a view.
ToMicrovoltsInPlace(raw, data) ==
    LET scaled == [i \in 1..Len(data.values) |->
                       data.values[i] * MicrovoltFactor]
    IN  [raw |-> IF data.view THEN scaled ELSE raw,
         data |-> [values |-> scaled, view |-> data.view]]

\* data = data * 1e6: a new array; the processor's memory raw is as it was.
ToMicrovolts(raw, data) ==
    [raw |-> raw,
     data |-> [values |-> [i \in 1..Len(data.values) |->
                               data.values[i] * MicrovoltFactor],
               view |-> FALSE]]

\* self.current_data - np.mean(self.current_data), times the length to
\* stay in whole numbers: a new array as well.
Demeaned(raw, data) ==
    LET n == Len(data.values)
        total == SumRange(data.values, 1, n)
    IN  [raw |-> raw,
         data |-> [values |-> [i \in 1..n |-> n * data.values[i] - total],
                   view |-> FALSE]]

LoadNotStarted ==
    /\ load_step = "start"
    /\ raw_samples = None
    /\ original_samples = None
    /\ filter_applied = FALSE
    /\ analyzer_processor = FALSE
    /\ analysis_work = None

\* processor.set_raw_data(loader.raw)
SetRawData(samples) ==
    /\ load_step = "start"
    /\ raw_samples' = Some(samples)
    /\ original_samples' = Some(samples)
    /\ filter_applied' = FALSE
    /\ load_step' = "raw_set"
    /\ UNCHANGED <<analyzer_processor, analysis_work>>

\* processor.apply_bandpass_filter(l_freq=0.1, h_freq=40.0): raw.filter
\* rewrites the samples in place, to values the model leaves open, or
\* raises and the method returns False.
ApplyBandpassFilter(filtered, succeeds) ==
    /\ load_step = "raw_set"
    /\ Len(filtered) = Len(raw_samples[1])
    /\ IF succeeds
       THEN /\ raw_samples' = Some(filtered)
            /\ filter_applied' = TRUE
       ELSE /\ filtered = raw_samples[1]
            /\ UNCHANGED <<raw_samples, filter_applied>>
    /\ load_step' = "filtered"
    /\ UNCHANGED <<original_samples, analyzer_processor, analysis_work>>

\* analyzer.set_processor(processor)
SetProcessor ==
    /\ load_step = "filtered"
    /\ analyzer_processor' = TRUE
    /\ load_step' = "finished"
    /\ UNCHANGED <<raw_samples, original_samples, filter_applied,
                   analysis_work>>

\* An analysis that leaves the processor's memory as mem.raw and has
\* computed on mem.data.
AnalysisDone(op, mem) ==
    /\ raw_samples' = Some(mem.raw)
    /\ analysis_work' = Some([op |-> op, values |-> mem.data.values])
    /\ UNCHANGED <<load_step, original_samples, filter_applied,
                   analyzer_processor>>

\* analyzer.calculate_alpha_power_sliding: get_data, then data * 1e6.
SessionAlphaPowerSliding(is_view) ==
    /\ analyzer_processor
    /\ raw_samples # None
    /\ AnalysisDone("sliding",
           ToMicrovolts(raw_samples[1], RawGetData(raw_samples[1], is_view)))

\* analyzer.calculate_frequency_spectrum: get_data, then data * 1e6.
SessionFrequencySpectrum(is_view) ==
    /\ analyzer_processor
    /\ raw_samples # None
    /\ AnalysisDone("spectrum",
           ToMicrovolts(raw_samples[1], RawGetData(raw_samples[1], is_view)))

\* DFAAnalysis.update_data and calculate_dfa_direct: current_data is a row
\* of get_filtered_data's array, and the profile is built from
\* current_data - mean.
SessionDfa(is_view) ==
    /\ analyzer_processor
    /\ raw_samples # None
    /\ AnalysisDone("dfa",
           Demeaned(raw_samples[1], RawGetData(raw_samples[1], is_view)))

SessionStep ==
    \/ \E samples \in SessionSamples : SetRawData(samples)
    \/ \E filtered \in SessionSamples, succeeds \in BOOLEAN :
           ApplyBandpassFilter(filtered, succeeds)
    \/ SetProcessor
    \/ \E is_view \in BOOLEAN : SessionAlphaPowerSliding(is_view)
    \/ \E is_view \in BOOLEAN : SessionFrequencySpectrum(is_view)
    \/ \E is_view \in BOOLEAN : SessionDfa(is_view)

----------------------------------------------------------------------------
(* Loading in the background: MainWindow.auto_load_file starts an          *)
(* EEGLoadThread and keeps it in self.load_thread; the thread's finished   *)
(* signal, emitted off the GUI thread, is queued and handled later by      *)
(* on_load_finished.  Threads are numbered in the order of their creation. *)
(* gui/main_window.py's thread stores loader, processor and analyzer       *)
(* together at the end of run and has no such attribute before;            *)
(* gui/threading/eeg_load_thread.py's, used by main_window_fixed.py, has   *)
(* them None from __init__ and assigns each as run goes.                   *)

MaxLoads == 2              \* files selected in one behaviour

WindowKinds == {"main_window", "main_window_fixed"}

LoadThreadIds == 1..MaxLoads

\* The attributes of a thread whose run is at `step`: "missing" (no such
\* attribute), "None" or "set".
ThreadResults(kind, step) ==
    IF kind = "main_window"
    THEN LET all == IF step = "finished" THEN "set" ELSE "missing"
         IN  [loader |-> all, processor |-> all, analyzer |-> all]
    ELSE [loader    |-> IF step = "started" THEN "None" ELSE "set",
          processor |-> IF step \in {"processed", "finished"}
                        THEN "set" ELSE "None",
          analyzer  |-> IF step = "finished" THEN "set" ELSE "None"]

LoadWindowInit ==
    /\ window_kind = "main_window"
    /\ load_threads = [t \in LoadThreadIds |-> "not_created"]
    /\ load_thread = None
    /\ finished_queue = <<>>
    /\ installed = None

LoadWindowsInit ==
    /\ window_kind \in WindowKinds
    /\ load_threads = [t \in LoadThreadIds |-> "not_created"]
    /\ load_thread = None
    /\ finished_queue = <<>>
    /\ installed = None

\* auto_load_file on a file that exists: a new thread replaces
\* self.load_thread and is started.
AutoLoadFile(t) ==
    /\ load_threads[t] = "not_created"
    /\ \A u \in LoadThreadIds : u < t => load_threads[u] # "not_created"
    /\ load_threads' = [load_threads EXCEPT ![t] = "started"]
    /\ load_thread' = Some(t)
    /\ UNCHANGED <<window_kind, finished_queue, installed>>

\* run: loader.load_edf, which fails or raises with finished(False).
RunLoadEdf(t, loaded) ==
    /\ load_threads[t] = "started"
    /\ IF loaded
       THEN /\ load_threads' = [load_threads EXCEPT ![t] = "loaded"]
            /\ UNCHANGED finished_queue
       ELSE /\ load_threads' = [load_threads EXCEPT ![t] = "failed"]
            /\ finished_queue' =
                   Append(finished_queue, [thread |-> t, success |-> FALSE])
    /\ UNCHANGED <<window_kind, load_thread, installed>>

\* run: EEGProcessor(), set_raw_data, apply_bandpass_filter.
RunProcessor(t) ==
    /\ load_threads[t] = "loaded"
    /\ load_threads' = [load_threads EXCEPT ![t] = "processed"]
    /\ UNCHANGED <<window_kind, load_thread, finished_queue, installed>>

\* run: EEGAnalyzer(), set_processor, then finished(True).
RunAnalyzer(t) ==
    /\ load_threads[t] = "processed"
    /\ load_threads' = [load_threads EXCEPT ![t] = "finished"]
    /\ finished_queue' =
           Append(finished_queue, [thread |-> t, success |-> TRUE])
    /\ UNCHANGED <<window_kind, load_thread, installed>>

\* on_load_finished(success, message) for the oldest queued signal: on
\* success it reads loader, processor and analyzer of self.load_thread.
OnLoadFinished ==
    /\ finished_queue # <<>>
    /\ finished_queue' = Tail(finished_queue)
    /\ LET signal == Head(finished_queue)
           source == load_thread[1]
           results == ThreadResults(window_kind, load_threads[source])
       IN  installed' =
               IF signal.success
               THEN Some([handled |-> signal.thread,
                          source |-> source,
                          source_step |-> load_threads[source],
                          outcome |-> IF results.loader = "missing"
                                      THEN "AttributeError"
                                      ELSE "installed",
                          results |-> results])
               ELSE Some([handled |-> signal.thread,
                          source |-> source,
                          source_step |-> load_threads[source],
                          outcome |-> "failed",
                          results |-> results])
    /\ UNCHANGED <<window_kind, load_threads, load_thread>>

LoadStep ==
    \/ \E t \in LoadThreadIds : AutoLoadFile(t)
    \/ \E t \in LoadThreadIds, loaded \in BOOLEAN : RunLoadEdf(t, loaded)
    \/ \E t \in LoadThreadIds : RunProcessor(t)
    \/ \E t \in LoadThreadIds : RunAnalyzer(t)
    \/ OnLoadFinished

----------------------------------------------------------------------------
(* ThreadManager (gui/threading/thread_manager.py).  The threads given to  *)
(* start_thread are numbered in the order they are started.  A thread's    *)
(* run ends by emitting finished, which is queued for the GUI thread and   *)
(* delivered later to the lambda start_thread connected; a thread that is  *)
(* terminated while running emits nothing.                                 *)

MaxManaged == 3            \* threads started in one behaviour

ThreadKeys == {"load", "analysis"}

ManagedIds == 1..MaxManaged

\* is_thread_running
IsThreadRunning(active, thread_id) == active[thread_id] # None

\* stop_thread on the manager m = [active, threads]: the registered thread
\* is terminated if it is running, and unregistered.
StopThread(m, thread_id) ==
    IF IsThreadRunning(m.active, thread_id)
    THEN LET thread == m.active[thread_id][1]
         IN  [active  |-> [m.active EXCEPT ![thread_id] = None],
              threads |-> [m.threads EXCEPT ![thread].state =
                               IF @ = "running" THEN "terminated"
                               ELSE "stopped"]]
    ELSE m

ThreadManagerInit ==
    /\ active_threads = [k \in ThreadKeys |-> None]
    /\ managed_threads =
           [t \in ManagedIds |-> [thread_id |-> "load", state |-> "new"]]
    /\ notifications = <<>>

Manager == [active |-> active_threads, threads |-> managed_threads]

ManagerBecomes(m) ==
    /\ active_threads' = m.active
    /\ managed_threads' = m.threads

\* start_thread(thread_id, thread) with a thread not started before.
StartThread(thread_id, thread) ==
    /\ managed_threads[thread].state = "new"
    /\ \A u \in ManagedIds : u < thread => managed_threads[u].state # "new"
    /\ LET m == StopThread(Manager, thread_id)
       IN  ManagerBecomes(
               [active  |-> [m.active EXCEPT ![thread_id] = Some(thread)],
                threads |-> [m.threads EXCEPT ![thread] =
                                 [thread_id |-> thread_id,
                                  state |-> "running"]]])
    /\ UNCHANGED notifications

CallStopThread(thread_id) ==
    /\ ManagerBecomes(StopThread(Manager, thread_id))
    /\ UNCHANGED notifications

\* stop_all_threads
StopAllThreads ==
    /\ ManagerBecomes(StopThread(StopThread(Manager, "load"), "analysis"))
    /\ UNCHANGED notifications

\* The thread's run ends: finished(success, msg) is emitted and queued.
ThreadRunEnds(thread) ==
    /\ managed_threads[thread].state = "running"
    /\ managed_threads' = [managed_threads EXCEPT ![thread].state = "ended"]
    /\ notifications' =
           Append(notifications,
                  [thread_id |-> managed_threads[thread].thread_id,
                   thread |-> thread])
    /\ UNCHANGED active_threads

\* _on_thread_finished(thread_id, success, message) for the oldest queued
\* signal: whatever is registered under thread_id is unregistered.
OnThreadFinished ==
    /\ notifications # <<>>
    /\ notifications' = Tail(notifications)
    /\ LET signal == Head(notifications)
       IN  /\ active_threads' =
                  IF IsThreadRunning(active_threads, signal.thread_id)
                  THEN [active_threads EXCEPT ![signal.thread_id] = None]
                  ELSE active_threads
           /\ managed_threads' =
                  [managed_threads EXCEPT ![signal.thread].state =
                       IF @ = "ended" THEN "notified" ELSE @]

ManagerStep ==
    \/ \E k \in ThreadKeys, t \in ManagedIds : StartThread(k, t)
    \/ \E k \in ThreadKeys : CallStopThread(k)
    \/ StopAllThreads
    \/ \E t \in ManagedIds : ThreadRunEnds(t)
    \/ OnThreadFinished

----------------------------------------------------------------------------
(* The timeline: TimelineControls (gui/plots/timeline_controls.py) wired   *)
(* to EEGPlotWidget by EEGTimelinePanel.setup_connections                  *)
(* (gui/eeg_timeline_panel_new.py).  Durations are whole seconds, and all  *)
(* times are kept in thousandths of a second, so that value / 1000.0 *     *)
(* total_duration is a whole number for every slider value.  Signals are   *)
(* delivered at once, in the order of their connection.  The two widgets   *)
(* are the record w; w.emitted collects what timeline_changed emits.       *)

MaxTimelineSeconds == 2    \* recordings of 0..MaxTimelineSeconds seconds

SliderMaximum == 1000      \* timeline_slider.setMaximum(1000)

SliderValues == {0, 250, 500, SliderMaximum}

TimelineDurations == {1000 * d : d \in 0..MaxTimelineSeconds}

\* Positions asked for, from below 0 to beyond the longest recording.
TimelinePositions == {500 * k : k \in (-1)..(2 * MaxTimelineSeconds + 1)}

\* max(0, min(position, total_duration))
ClampPosition(position, total_duration) ==
    Max2(0, Min2(position, total_duration))

\* TimelineControls.set_position: the slider follows with its signals
\* blocked, so on_slider_changed does not run.
TimelineSetPosition(w, position) ==
    LET current == ClampPosition(position, w.total_duration)
    IN  [w EXCEPT !.current_position = current,
                  !.slider = IF w.total_duration > 0
                             THEN (current * 1000) \div w.total_duration
                             ELSE @]

\* EEGPlotWidget.set_current_position; its position_changed is connected
\* to TimelineControls.set_position.
PlotSetCurrentPosition(w, position) ==
    LET current == ClampPosition(position, w.plot_duration)
    IN  TimelineSetPosition([w EXCEPT !.plot_position = current], current)

\* on_slider_changed that moves the position and emits nothing.
OnSliderChangedSilent(w, value) ==
    IF w.total_duration > 0
    THEN [w EXCEPT !.current_position =
                       ClampPosition((value * w.total_duration) \div 1000,
                                     w.total_duration)]
    ELSE w

\* TimelineControls.on_slider_changed: position_changed goes to the plot's
\* set_current_position and then to timeline_changed.emit.
OnSliderChanged(w, value) ==
    IF w.total_duration > 0
    THEN LET current ==
                 ClampPosition((value * w.total_duration) \div 1000,
                               w.total_duration)
             plotted ==
                 PlotSetCurrentPosition(
                     [w EXCEPT !.current_position = current], current)
         IN  [plotted EXCEPT !.emitted = Append(@, current)]
    ELSE w

TimelineWidgets ==
    [total_duration |-> tl_total_duration,
     current_position |-> tl_current_position,
     slider |-> tl_slider,
     plot_duration |-> tl_plot_duration,
     plot_position |-> tl_plot_position,
     emitted |-> <<>>]

TimelineBecomes(w, operation) ==
    /\ tl_total_duration' = w.total_duration
    /\ tl_current_position' = w.current_position
    /\ tl_slider' = w.slider
    /\ tl_plot_duration' = w.plot_duration
    /\ tl_plot_position' = w.plot_position
    /\ tl_emitted' = w.emitted
    /\ tl_operation' = operation

TimelinePanelInit ==
    /\ tl_total_duration = 0
    /\ tl_current_position = 0
    /\ tl_slider = 0
    /\ tl_plot_duration = 0
    /\ tl_plot_position = 0
    /\ tl_emitted = <<>>
    /\ tl_operation = "init"

\* TimelineControls.set_duration
TimelineSetDuration(d) ==
    TimelineBecomes([TimelineWidgets EXCEPT !.total_duration = d],
                    "set_duration")

\* EEGTimelinePanel.set_processor with a recording of duration d
PanelSetProcessor(d) ==
    TimelineBecomes([TimelineWidgets EXCEPT !.plot_duration = d,
                                            !.total_duration = d],
                    "set_processor")

\* EEGTimelinePanel.set_current_position
PanelSetCurrentPosition(position) ==
    TimelineBecomes(TimelineSetPosition(TimelineWidgets, position),
                    "set_position")

\* eeg_plot.set_current_position called from outside
PlotPositionSet(position) ==
    TimelineBecomes(PlotSetCurrentPosition(TimelineWidgets, position),
                    "plot_position")

\* The user moves the slider to another value: valueChanged(value).
SliderChanged(value) ==
    /\ value # tl_slider
    /\ TimelineBecomes(
           OnSliderChanged([TimelineWidgets EXCEPT !.slider = value], value),
           "slider")

TimelineStep ==
    \/ \E d \in TimelineDurations : TimelineSetDuration(d)
    \/ \E d \in TimelineDurations : PanelSetProcessor(d)
    \/ \E p \in TimelinePositions : PanelSetCurrentPosition(p)
    \/ \E p \in TimelinePositions : PlotPositionSet(p)
    \/ \E v \in SliderValues : SliderChanged(v)

----------------------------------------------------------------------------
(* ChannelSelector (gui/analysis/channel_selector.py): a QComboBox of the  *)
(* channel names.  The combo box signals currentIndexChanged, which runs   *)
(* on_channel_changed at once, whenever its current index changes: by the  *)
(* user, by setCurrentIndex, by clear and by the first addItem into an     *)
(* empty box.  The widget is the record w; w.emitted collects what         *)
(* channel_changed emits.                                                  *)

MaxSelectorChannels == 5   \* recordings of 0..MaxSelectorChannels channels

SelectorIndices == (-1)..MaxSelectorChannels

\* on_channel_changed without the _updating_programmatically test.
OnChannelChangedUnguarded(w, index) ==
    IF 0 <= index /\ index < w.channel_count
    THEN [w EXCEPT !.current_channel = index,
                   !.emitted = Append(@, index)]
    ELSE w

\* on_channel_changed
OnChannelChanged(w, index) ==
    IF w.updating_programmatically THEN w
    ELSE IF 0 <= index /\ index < w.channel_count
         THEN [w EXCEPT !.current_channel = index,
                        !.emitted = Append(@, index)]
         ELSE w

\* The combo box's current index becomes `index`; currentIndexChanged is
\* signalled when that is a change.
ComboIndexBecomes(w, index) ==
    IF index = w.combo_index THEN w
    ELSE OnChannelChanged([w EXCEPT !.combo_index = index], index)

\* set_channels with n names: clear() leaves no current index, the first
\* addItem makes item 0 current, and item 0 is selected again at the end.
SelectorSetChannels(w, n) ==
    LET named == [w EXCEPT !.channel_count = n]
        cleared == ComboIndexBecomes(named, -1)
    IN  IF n > 0
        THEN [ComboIndexBecomes(cleared, 0) EXCEPT !.current_channel = 0]
        ELSE cleared

\* set_current_channel
SelectorSetCurrentChannel(w, channel_idx) ==
    IF 0 <= channel_idx /\ channel_idx < w.channel_count
    THEN LET selected ==
                 ComboIndexBecomes(
                     [w EXCEPT !.updating_programmatically = TRUE,
                               !.current_channel = channel_idx],
                     channel_idx)
         IN  [selected EXCEPT !.updating_programmatically = FALSE]
    ELSE w

ChannelSelectorWidget ==
    [channel_count |-> cs_channel_count,
     current_channel |-> cs_current_channel,
     combo_index |-> cs_combo_index,
     updating_programmatically |-> FALSE,
     emitted |-> <<>>]

SelectorBecomes(w, op, arg) ==
    /\ cs_channel_count' = w.channel_count
    /\ cs_current_channel' = w.current_channel
    /\ cs_combo_index' = w.combo_index
    /\ cs_emitted' = w.emitted
    /\ cs_operation' = [op |-> op, arg |-> arg]

ChannelSelectorInit ==
    /\ cs_channel_count = 0
    /\ cs_current_channel = 0
    /\ cs_combo_index = -1
    /\ cs_emitted = <<>>
    /\ cs_operation = [op |-> "init", arg |-> 0]

CallSetChannels(n) ==
    SelectorBecomes(SelectorSetChannels(ChannelSelectorWidget, n),
                    "set_channels", n)

CallSetCurrentChannel(channel_idx) ==
    SelectorBecomes(
        SelectorSetCurrentChannel(ChannelSelectorWidget, channel_idx),
        "set_current_channel", channel_idx)

\* The user picks another item of the combo box.
UserSelectsChannel(index) ==
    /\ 0 <= index /\ index < cs_channel_count
    /\ index # cs_combo_index
    /\ SelectorBecomes(ComboIndexBecomes(ChannelSelectorWidget, index),
                       "user_selects", index)

SelectorStep ==
    \/ \E n \in 0..MaxSelectorChannels : CallSetChannels(n)
    \/ \E idx \in SelectorIndices : CallSetCurrentChannel(idx)
    \/ \E idx \in SelectorIndices : UserSelectsChannel(idx)

----------------------------------------------------------------------------
(* Specifications: one per component, the other components at rest.        *)

RestInit ==
    /\ DfaWidgetInit /\ SpikesWidgetInit /\ PowerIdleInit /\ PlotWidgetInit
    /\ AllBandsWidgetInit /\ BandsIdleInit
    /\ ChannelsIdleInit /\ TimeframeControlsInit
    /\ LoadNotStarted
    /\ LoadWindowInit
    /\ ThreadManagerInit
    /\ TimelinePanelInit
    /\ ChannelSelectorInit

DfaInit == RestInit

DfaNext ==
    /\ DfaStep
    /\ UNCHANGED <<spikeVars, powerVars, plotVars, allBandsVars, bandVars,
                   channelVars, timeframeVars, sessionVars, loadVars,
                   managerVars, timelineVars, selectorVars>>

SpecDfa == DfaInit /\ [][DfaNext]_vars

DirectInit ==
    /\ DirectWidgetInit /\ SpikesWidgetInit /\ PowerIdleInit /\ PlotWidgetInit
    /\ AllBandsWidgetInit /\ BandsIdleInit
    /\ ChannelsIdleInit /\ TimeframeControlsInit
    /\ LoadNotStarted
    /\ LoadWindowInit
    /\ ThreadManagerInit
    /\ TimelinePanelInit
    /\ ChannelSelectorInit

DirectNext ==
    /\ DirectStep
    /\ UNCHANGED <<spikeVars, powerVars, plotVars, allBandsVars, bandVars,
                   channelVars, timeframeVars, sessionVars, loadVars,
                   managerVars, timelineVars, selectorVars>>

SpecDfaDirect == DirectInit /\ [][DirectNext]_vars

SpikesInit == RestInit

SpikesNext ==
    /\ SpikesStep
    /\ UNCHANGED <<dfaVars, powerVars, plotVars, allBandsVars, bandVars,
                   channelVars, timeframeVars, sessionVars, loadVars,
                   managerVars, timelineVars, selectorVars>>

SpecSpikes == SpikesInit /\ [][SpikesNext]_vars

PowerInit ==
    /\ DfaWidgetInit /\ SpikesWidgetInit /\ PowerCallsInit /\ PlotWidgetInit
    /\ AllBandsWidgetInit /\ BandsIdleInit
    /\ ChannelsIdleInit /\ TimeframeControlsInit
    /\ LoadNotStarted
    /\ LoadWindowInit
    /\ ThreadManagerInit
    /\ TimelinePanelInit
    /\ ChannelSelectorInit

PowerNext ==
    /\ PowerStep
    /\ UNCHANGED <<dfaVars, spikeVars, plotVars, allBandsVars, bandVars,
                   channelVars, timeframeVars, sessionVars, loadVars,
                   managerVars, timelineVars, selectorVars>>

SpecPower == PowerInit /\ [][PowerNext]_vars

PlotInit == RestInit

PlotNext ==
    /\ PlotStep
    /\ UNCHANGED <<dfaVars, spikeVars, powerVars, allBandsVars, bandVars,
                   channelVars, timeframeVars, sessionVars, loadVars,
                   managerVars, timelineVars, selectorVars>>

SpecPlot == PlotInit /\ [][PlotNext]_vars

AllBandsInit == RestInit

AllBandsNext ==
    /\ AllBandsStep
    /\ UNCHANGED <<dfaVars, spikeVars, powerVars, plotVars, bandVars,
                   channelVars, timeframeVars, sessionVars, loadVars,
                   managerVars, timelineVars, selectorVars>>

SpecAllBands == AllBandsInit /\ [][AllBandsNext]_vars

BandsInit ==
    /\ DfaWidgetInit /\ SpikesWidgetInit /\ PowerIdleInit /\ PlotWidgetInit
    /\ AllBandsWidgetInit /\ BandsCallsInit /\ ChannelsIdleInit
    /\ TimeframeControlsInit
    /\ LoadNotStarted
    /\ LoadWindowInit
    /\ ThreadManagerInit
    /\ TimelinePanelInit
    /\ ChannelSelectorInit

BandsNext ==
    /\ BandsStep
    /\ UNCHANGED <<dfaVars, spikeVars, powerVars, plotVars, allBandsVars,
                   channelVars, timeframeVars, sessionVars, loadVars,
                   managerVars, timelineVars, selectorVars>>

SpecBands == BandsInit /\ [][BandsNext]_vars

ChannelsInit ==
    /\ DfaWidgetInit /\ SpikesWidgetInit /\ PowerIdleInit /\ PlotWidgetInit
    /\ AllBandsWidgetInit /\ BandsIdleInit /\ ChannelsCallsInit
    /\ TimeframeControlsInit
    /\ LoadNotStarted
    /\ LoadWindowInit
    /\ ThreadManagerInit
    /\ TimelinePanelInit
    /\ ChannelSelectorInit

ChannelsNext ==
    /\ ChannelsStep
    /\ UNCHANGED <<dfaVars, spikeVars, powerVars, plotVars, allBandsVars,
                   bandVars, timeframeVars, sessionVars, loadVars,
                   managerVars, timelineVars, selectorVars>>

SpecChannels == ChannelsInit /\ [][ChannelsNext]_vars

TimeframeInit == RestInit

TimeframeNext ==
    /\ TimeframeStep
    /\ UNCHANGED <<dfaVars, spikeVars, powerVars, plotVars, allBandsVars,
                   bandVars, channelVars, sessionVars, loadVars,
                   managerVars, timelineVars, selectorVars>>

SpecTimeframe == TimeframeInit /\ [][TimeframeNext]_vars

SessionInit == RestInit

SessionNext ==
    /\ SessionStep
    /\ UNCHANGED <<dfaVars, spikeVars, powerVars, plotVars, allBandsVars,
                   bandVars, channelVars, timeframeVars, loadVars,
                   managerVars, timelineVars, selectorVars>>

SpecSession == SessionInit /\ [][SessionNext]_vars

LoadInit ==
    /\ DfaWidgetInit /\ SpikesWidgetInit /\ PowerIdleInit /\ PlotWidgetInit
    /\ AllBandsWidgetInit /\ BandsIdleInit
    /\ ChannelsIdleInit /\ TimeframeControlsInit
    /\ LoadNotStarted
    /\ LoadWindowsInit
    /\ ThreadManagerInit
    /\ TimelinePanelInit
    /\ ChannelSelectorInit

LoadNext ==
    /\ LoadStep
    /\ UNCHANGED <<dfaVars, spikeVars, powerVars, plotVars, allBandsVars,
                   bandVars, channelVars, timeframeVars, sessionVars,
                   managerVars, timelineVars, selectorVars>>

SpecLoad == LoadInit /\ [][LoadNext]_vars

ManagerInit == RestInit

ManagerNext ==
    /\ ManagerStep
    /\ UNCHANGED <<dfaVars, spikeVars, powerVars, plotVars, allBandsVars,
                   bandVars, channelVars, timeframeVars, sessionVars,
                   loadVars, timelineVars, selectorVars>>

SpecManager == ManagerInit /\ [][ManagerNext]_vars

TimelineInit == RestInit

TimelineNext ==
    /\ TimelineStep
    /\ UNCHANGED <<dfaVars, spikeVars, powerVars, plotVars, allBandsVars,
                   bandVars, channelVars, timeframeVars, sessionVars,
                   loadVars, managerVars, selectorVars>>

SpecTimeline == TimelineInit /\ [][TimelineNext]_vars

RegistryInit == RestInit

RegistryNext ==
    /\ RegistryStep
    /\ UNCHANGED <<dfaVars, spikeVars, powerVars, plotVars, allBandsVars,
                   channelVars, timeframeVars, sessionVars, loadVars,
                   managerVars, timelineVars, selectorVars>>

SpecRegistry == RegistryInit /\ [][RegistryNext]_vars

SelectorInit == RestInit

SelectorNext ==
    /\ SelectorStep
    /\ UNCHANGED <<dfaVars, spikeVars, powerVars, plotVars, allBandsVars,
                   bandVars, channelVars, timeframeVars, sessionVars,
                   loadVars, managerVars, timelineVars>>

SpecSelector == SelectorInit /\ [][SelectorNext]_vars

----------------------------------------------------------------------------
(* Claims on DFAAnalysis.                                                  *)

DirectResult == dfa_return[1].result

\* C1 (as stated): alpha is NaN exactly when fewer than 2 valid
\* (scale, fluctuation) pairs remain; with 2 or more it is the slope.
C1_AsStated ==
    dfa_return # None =>
        (DirectResult.alpha = "NaN" <=> Len(DirectResult.scales) < 2)

\* C1 (amended): alpha is NaN exactly when fewer than 3 valid
\* (scale, fluctuation) pairs remain; with 3 or more it is the slope of the
\* log-log regression.
C1_NaNBelowThreePairs ==
    dfa_return # None =>
        /\ Len(DirectResult.scales) = Len(DirectResult.fluctuations)
        /\ DirectResult.alpha = "NaN" <=> Len(DirectResult.scales) < 3
        /\ DirectResult.alpha = "slope" <=> Len(DirectResult.scales) >= 3

\* A call that left exactly two valid pairs.
C1_TwoPairsLeft ==
    /\ dfa_return # None
    /\ Len(DirectResult.scales) = 2
    /\ DirectResult.alpha = "NaN"

\* The scales generated for the last direct call, the number of complete
\* segments the data gives at a scale, and whether the call's result holds
\* a pair for that scale.
DirectAllScales ==
    LogScales(dfa_return[1].min_scale, dfa_return[1].max_scale,
              dfa_return[1].n_scales)

DirectSegments(scale) == Len(Samples(current_data[1])) \div scale

DirectKept(scale) ==
    \E k \in 1..Len(DirectResult.scales) : DirectResult.scales[k] = scale

\* C15 (as stated): a scale with fewer than 2 complete segments is skipped
\* and contributes no (scale, fluctuation) pair.
C15_AsStated ==
    dfa_return # None =>
        \A i \in 1..Len(DirectAllScales) :
            DirectSegments(DirectAllScales[i]) < 2 =>
                ~DirectKept(DirectAllScales[i])

\* C15 (amended): a scale with fewer than 1 complete segment is skipped and
\* contributes no (scale, fluctuation) pair.
C15_SkippedBelowOneSegment ==
    dfa_return # None =>
        \A i \in 1..Len(DirectAllScales) :
            DirectSegments(DirectAllScales[i]) < 1 =>
                ~DirectKept(DirectAllScales[i])

\* One call with a scale too long for the data and a scale that fits it
\* once and is kept.
C15_OneSegmentScaleKept ==
    /\ dfa_return # None
    /\ \E i \in 1..Len(DirectAllScales) :
           DirectSegments(DirectAllScales[i]) < 1
    /\ \E i \in 1..Len(DirectAllScales) :
           /\ DirectSegments(DirectAllScales[i]) = 1
           /\ DirectKept(DirectAllScales[i])

\* C16: calculate_dfa_direct with min_scale = 4, max_scale = 10 and
\* n_scales = 2 on a signal of 20 samples returns a result whose alpha is
\* NaN.
C16_TwentySamplesGiveNaN ==
    (/\ dfa_return # None
     /\ Len(Samples(current_data[1])) = 20
     /\ dfa_return[1].min_scale = 4
     /\ dfa_return[1].max_scale = 10
     /\ dfa_return[1].n_scales = 2) =>
        /\ DirectResult.alpha = "NaN"
        /\ Len(DirectResult.scales) <= 2
        /\ Len(DirectResult.fluctuations) = Len(DirectResult.scales)

\* That call on a 20-sample signal whose two scales both give a pair.
C16_BothScalesValid ==
    /\ dfa_return # None
    /\ Len(Samples(current_data[1])) = 20
    /\ dfa_return[1].min_scale = 4
    /\ dfa_return[1].max_scale = 10
    /\ dfa_return[1].n_scales = 2
    /\ DirectResult.scales = <<4, 10>>
    /\ DirectResult.alpha = "NaN"

\* C2: a request with min_scale < 4, min_scale >= max_scale or n_scales < 2
\* is rejected before any computation begins, so the parameters handed to
\* calculate_dfa_direct are never structurally invalid.
C2_InvalidParametersRejected ==
    dfa_params # None =>
        /\ dfa_params[1].min_scale >= 4
        /\ dfa_params[1].min_scale < dfa_params[1].max_scale
        /\ dfa_params[1].n_scales >= 2

----------------------------------------------------------------------------
(* Claims on BandSpikes.                                                   *)

\* C3: the event list never holds two events whose times lie within the
\* minimum separation of 0.5 s of each other (any two are more than 0.5 s
\* apart).
C3_EventsApart ==
    \A i \in 1..Len(spike_events) : \A j \in 1..Len(spike_events) :
        i < j => spike_events[j] - spike_events[i] > HalfSecond

\* Two events reported where some above-threshold times were coalesced.
C3_CoalescedToTwo ==
    /\ Len(spike_events) >= 2
    /\ Len(spike_times) > Len(spike_events)

\* The first time of each run of spike_times in which every time is less
\* than 0.5 s after the one before it.
ChainRunStarts ==
    SelectIdx(spike_times,
              [j \in 1..Len(spike_times) |->
                  \/ j = 1
                  \/ spike_times[j] - spike_times[j - 1] >= HalfSecond],
              1, Len(spike_times))

\* C4 (as stated): exactly one event per run of above-threshold times each
\* less than 0.5 s after the preceding one, at the run's first timestamp.
C4_AsStated == spike_events = ChainRunStarts

\* C4 (amended): exactly one event per group of above-threshold times, a
\* group being opened by the first above-threshold time and by each later
\* one lying more than 0.5 s after the time that opened the current group;
\* the event's time is the first timestamp of its group.
C4_OneEventPerAnchoredGroup ==
    LET E == spike_events
        T == spike_times
    IN  /\ (Len(T) = 0) <=> (Len(E) = 0)
        /\ Len(T) > 0 => E[1] = T[1]
        /\ \A k \in 1..Len(E) : \E j \in 1..Len(T) : T[j] = E[k]
        /\ \A k \in 2..Len(E) :
              /\ E[k] - E[k - 1] > HalfSecond
              /\ \A j \in 1..Len(T) :
                    ~(T[j] > E[k - 1] + HalfSecond /\ T[j] < E[k])
        /\ \A j \in 1..Len(T) : \E k \in 1..Len(E) :
              T[j] >= E[k] /\ T[j] - E[k] <= HalfSecond

\* A run of three above-threshold times, each less than 0.5 s after the one
\* before, that spans more than 0.5 s and was reported as two events.
C4_LongRunSplit ==
    /\ Len(spike_times) = 3
    /\ spike_times[2] - spike_times[1] < HalfSecond
    /\ spike_times[3] - spike_times[2] < HalfSecond
    /\ spike_times[3] - spike_times[1] > HalfSecond
    /\ Len(spike_events) = 2

\* C10: after detection on an empty power series the event list is empty
\* and zero spikes are reported, whatever an earlier detection had found.
C10_EmptySeriesNoEvents ==
    (power_data.kind = "series" /\ Len(power_data.value) = 0) =>
        (Len(spike_events) = 0 /\ spike_count_label = 0)

\* The number of events detection reports for the loaded series at a
\* multiplier of t tenths.
EventCountAt(t) == Len(SpikeEventsOf(sp_analyzer[1], t, duration))

\* C11: when detection has run on the loaded power series, the number of
\* spike events after coalescing never grows as the threshold multiplier is
\* raised over the whole range of the threshold control, the series and the
\* duration staying as they are.
C11_CountNonIncreasing ==
    (/\ sp_analyzer # None
     /\ HasPower(power_data)
     /\ spike_times =
            SpikeTimesOf(sp_analyzer[1], threshold_multiplier, duration)) =>
        LET counts == {<<t, EventCountAt(t)>> : t \in ThresholdLo..ThresholdHi}
        IN  \A lower \in counts, higher \in counts :
                lower[1] <= higher[1] => higher[2] <= lower[2]

\* Detection has run at the current multiplier and a higher multiplier
\* leaves strictly fewer events, yet some.
C11_FewerAtHigherSigma ==
    /\ sp_analyzer # None
    /\ HasPower(power_data)
    /\ spike_times =
           SpikeTimesOf(sp_analyzer[1], threshold_multiplier, duration)
    /\ spike_events = GroupNearby(spike_times)
    /\ spike_count_label = EventCountAt(threshold_multiplier)
    /\ \E t \in (threshold_multiplier + 1)..ThresholdHi :
           /\ EventCountAt(t) > 0
           /\ EventCountAt(t) < spike_count_label

\* C12: coalescing is idempotent: running the grouping loop of detection
\* again on the event times it produced, with the same 0.5 s separation,
\* returns the same events.
C12_CoalescingIdempotent ==
    spike_events = GroupNearby(spike_times) =>
        GroupNearby(spike_events) = spike_events

\* Detection merged some spike times and still kept several events.
C12_SeveralEventsAfterMerging ==
    /\ HasPower(power_data)
    /\ spike_events = GroupNearby(spike_times)
    /\ Len(spike_events) >= 2
    /\ Len(spike_times) > Len(spike_events)
    /\ \E k \in 1..(Len(spike_events) - 1) :
           spike_events[k + 1] - spike_events[k] < 2 * HalfSecond

----------------------------------------------------------------------------
(* Claims on sliding-window band power.                                    *)

SlidingOps ==
    {"calculate_power_over_time", "calculate_alpha_power_sliding", "panel_band_power"}

\* The last call was a sliding-window pass.
SlidingCalled == sliding # None /\ sliding[1].op \in SlidingOps

\* C5: a sliding pass evaluates only complete windows: every window
\* [start, start + window_samples) lies inside the signal, and a signal
\* shorter than one window gives an empty series.
C5_OnlyCompleteWindows ==
    SlidingCalled =>
        LET r == sliding[1].result
        IN  /\ \A k \in 1..Len(r.windows) :
                  /\ r.windows[k].start >= 0
                  /\ r.windows[k].end <= pw_recording.n
                  /\ r.windows[k].len = r.window_samples
            /\ pw_recording.n < r.window_samples => Len(r.values) = 0

\* C7 (as stated): successive windows start int(step_seconds * sample_rate)
\* samples apart, 0.5 s with the default 2 s window, whatever the window
\* length: in calculate_power_over_time by its step_size, in the two
\* sliding loops with their default arguments by 0.5 s.
C7_AsStated ==
    SlidingCalled =>
        LET c == sliding[1]
            r == c.result
            stride == IF c.op = "calculate_power_over_time"
                      THEN IntTrunc(c.step * pw_recording.sfreq, 2)
                      ELSE IntTrunc(DefaultStepHalves * pw_recording.sfreq, 2)
        IN  (c.op = "calculate_power_over_time"
                \/ (c.window = DefaultWindowHalves /\ c.step = DefaultOverlapHalves)) =>
                \A k \in 2..Len(r.windows) :
                    r.windows[k].start - r.windows[k - 1].start = stride

\* C7 (amended): in PowerAnalyzer.calculate_power_over_time successive
\* windows start int(step_size * sfreq) samples apart (0.5 s by default),
\* whatever the window length; in EEGAnalyzer.calculate_alpha_power_sliding
\* and AnalysisPanel.calculate_band_power they start
\* int(window_length * sfreq) - int(overlap * sfreq) samples apart (1.5 s
\* with the default 2 s window and 0.5 s overlap).
C7_StrideByImplementation ==
    SlidingCalled =>
        LET c == sliding[1]
            r == c.result
            stride == IF c.op = "calculate_power_over_time"
                      THEN IntTrunc(c.step * pw_recording.sfreq, 2)
                      ELSE IntTrunc(c.window * pw_recording.sfreq, 2)
                               - IntTrunc(c.step * pw_recording.sfreq, 2)
        IN  \A k \in 2..Len(r.windows) :
                r.windows[k].start - r.windows[k - 1].start = stride

\* A default pass of a sliding loop over several windows, 1.5 s apart.
C7_DefaultLoopStride ==
    /\ SlidingCalled
    /\ sliding[1].op = "calculate_alpha_power_sliding"
    /\ sliding[1].window = DefaultWindowHalves
    /\ sliding[1].step = DefaultOverlapHalves
    /\ Len(sliding[1].result.windows) >= 2
    /\ 2 * sliding[1].result.step_samples = 3 * pw_recording.sfreq

\* C8: with a step of 0 samples or fewer a sliding pass returns an empty
\* series.
C8_NonPositiveStepEmpty ==
    (SlidingCalled /\ sliding[1].result.step_samples <= 0) =>
        /\ sliding[1].result.kind = "array"
        /\ Len(sliding[1].result.values) = 0

\* C9: a band power is 0.0 whenever no frequency bin lies inside the band
\* or the spectral estimation fails, in each window of a sliding pass too.
C9_ZeroWithoutBinsOrOnFailure ==
    sliding # None =>
        LET c == sliding[1]
            r == c.result
            nperseg(k) ==
                Min2(r.windows[k].len,
                     IF c.op \in {"calculate_band_power", "calculate_power_over_time"}
                     THEN NpersegCap ELSE r.window_samples)
        IN  \A k \in 1..Len(r.values) :
                (c.fails \/ BinsInBand(pw_recording.sfreq, nperseg(k), c.band) = {})
                    => r.values[k] = "0.0"

----------------------------------------------------------------------------
(* Claims on PowerPlot.                                                    *)

\* C6: the time paired with each sliding-window power value is the midpoint
\* of its window in absolute recording time, also when the analysis starts
\* at start_time: twice the time is the window's first plus its
\* last-plus-one sample time (or first plus last, for the middle sample).
C6_TimeIsWindowMidpoint ==
    plot_curve # None =>
        \A k \in 1..Len(plot_curve[1]) :
            LET p == plot_curve[1][k]
            IN  \/ 2 * p.time.num = p.time.den * (p.window.start + p.window.end)
                \/ 2 * p.time.num = p.time.den * (p.window.start + p.window.end - 1)

----------------------------------------------------------------------------
(* Claims on AllBandsPower.                                                *)

\* C13: every curve of the comparison plot comes from the series the
\* analyzer returned by per-band normalisation: for a series that is not
\* constant all values lie in [0, 1], the least is 0 and the greatest is
\* 1; a constant series is drawn unchanged.
C13_NormalizedToUnitRange ==
    \A b \in DOMAIN all_power_data :
        LET power == band_power_data.value
            curve == all_power_data[b]
            idx == 1..Len(power)
        IN  /\ DOMAIN curve = idx
            /\ IF \E i \in idx, j \in idx : power[i] # power[j]
               THEN /\ \A k \in idx : /\ curve[k].den > 0
                                       /\ 0 <= curve[k].num
                                       /\ curve[k].num <= curve[k].den
                    /\ \E k \in idx : curve[k].num = 0
                    /\ \E k \in idx : curve[k].num = curve[k].den
               ELSE \A k \in idx : /\ curve[k].den > 0
                                    /\ curve[k].num = power[k] * curve[k].den

\* A band is drawn from a series that has a value strictly between its
\* least and its greatest.
C13_ThreeLevelsDrawn ==
    /\ "Theta" \in DOMAIN all_power_data
    /\ \E k \in DOMAIN all_power_data["Theta"] :
           /\ 0 < all_power_data["Theta"][k].num
           /\ all_power_data["Theta"][k].num < all_power_data["Theta"][k].den

----------------------------------------------------------------------------
(* Claims on the band registry and relative power.                         *)

LastBandCall == band_call[1]

\* C14: whenever the power over total_range is positive, the relative power
\* calculate_relative_power returns lies in [0, 1], whatever band the
\* registry returns for the name.
C14_RelativePowerWithinUnit ==
    (/\ band_call # None
     /\ LastBandCall.op = "calculate_relative_power"
     /\ LastBandCall.result.total_power > 0) =>
        /\ 0 <= LastBandCall.result.relative.num
        /\ LastBandCall.result.relative.num <= LastBandCall.result.relative.den

\* C17: for a name that is neither a standard band nor a registered custom
\* band, get_band_info returns Alpha's 8-13 Hz, and calculate_band_power
\* masks the bins of 8-13 Hz and integrates the spectrum over them.
C17_UnknownNameIsAlpha ==
    (/\ band_call # None
     /\ LastBandCall.band_name \notin StandardBandNames
     /\ LastBandCall.band_name \notin DOMAIN custom_bands) =>
        LET alpha_bins ==
                {k \in 0..(band_recording.n \div 2) :
                    /\ k * band_recording.sfreq >= 8 * band_recording.n
                    /\ k * band_recording.sfreq <= 13 * band_recording.n}
        IN  /\ LastBandCall.op = "get_band_info" =>
                LastBandCall.result = [low |-> 2 * 8, high |-> 2 * 13]
            /\ LastBandCall.op = "calculate_band_power" =>
                /\ LastBandCall.result.band = [low |-> 2 * 8, high |-> 2 * 13]
                /\ \/ /\ LastBandCall.result.bins = {}
                       /\ LastBandCall.result.power = 0
                   \/ /\ LastBandCall.result.bins = alpha_bins
                       /\ LastBandCall.result.power =
                              Trapz(PsdOf(band_recording), alpha_bins)

\* The band power of an unregistered name came out positive, from the two
\* bins between 8 and 13 Hz.
C17_UnknownNamePowered ==
    /\ band_call # None
    /\ LastBandCall.op = "calculate_band_power"
    /\ LastBandCall.band_name = "Unknown"
    /\ "Wide" \in DOMAIN custom_bands
    /\ Cardinality(LastBandCall.result.bins) = 2
    /\ LastBandCall.result.power > 0

\* C18: every band the registry returns, for a standard name, a custom name
\* or any other, has its low edge below its high edge.
C18_LowBelowHigh ==
    \A name \in StandardBandNames \cup LookupNames \cup DOMAIN custom_bands :
        GetBandInfoIn(custom_bands, name).low
            < GetBandInfoIn(custom_bands, name).high

----------------------------------------------------------------------------
(* Claims on channel selection.                                            *)

\* C19: an analysis call on a loaded recording with a channel index outside
\* 0 <= idx < channel_count ends in a caller-error indication: neither an
\* ordinary result nor the sentinel that reports a data problem.
C19_OutOfRangeIsCallerError ==
    (/\ channel_call # None
     /\ recording_loaded
     /\ \/ channel_call[1].channel_idx < 0
        \/ channel_call[1].channel_idx >= channel_count) =>
        /\ channel_call[1].result.kind # "result"
        /\ channel_call[1].result.kind # "none"

----------------------------------------------------------------------------
(* Claims on TimeframeControls.                                            *)

\* C20: every (start, end) pair timeframe_changed emits satisfies
\* 0 <= start < end <= duration, whatever spin-box edits, set_duration and
\* set_full_range came before.
C20_EmittedWithinDuration ==
    \A k \in 1..Len(tf_emitted) :
        /\ 0 <= tf_emitted[k][1]
        /\ tf_emitted[k][1] < tf_emitted[k][2]
        /\ tf_emitted[k][2] <= tf_total_duration

----------------------------------------------------------------------------
(* Claims on the loaded signal.                                            *)

\* C21: once the processor has been handed to the analyzer, no step
\* changes its samples: the sliding band power, the spectrum and the DFA
\* leave processor.raw and processor.original_raw as they were.
C21_SamplesFrozenOnceHanded ==
    [][analyzer_processor =>
           /\ raw_samples' = raw_samples
           /\ original_samples' = original_samples]_vars

\* An analysis has run on a filtered signal that differs from the loaded
\* one, and its working array differs from the signal too.
C21_AnalysisRanOnFiltered ==
    /\ analyzer_processor
    /\ filter_applied
    /\ raw_samples # original_samples
    /\ analysis_work # None
    /\ analysis_work[1].values # raw_samples[1]

\* C23 (as stated): the spike events on display are those detected with
\* the selected threshold: a step that changes the threshold leaves the
\* widget showing the events of a detection at the new threshold, or none.
C23_ThresholdChangeRedetects ==
    [][(sp_analyzer # None /\ threshold_multiplier' # threshold_multiplier)
           => \/ spike_events' = <<>>
              \/ spike_events' = SpikeEventsOf(sp_analyzer[1],
                                               threshold_multiplier',
                                               duration')]_vars

\* C24: a DFA calculation analyses the selected channel: whenever
\* calculate_dfa computes with a channel of the recording selected, the
\* samples it works on are those of current_channel, the channel last
\* given to set_channel.
C24_DfaOnSelectedChannel ==
    (/\ channel_call # None
     /\ channel_call[1].op = "calculate_dfa"
     /\ channel_call[1].channel_idx \in 0..(channel_count - 1)
     /\ channel_call[1].result.kind = "result") =>
        channel_call[1].result.channel = Some(channel_call[1].channel_idx)

----------------------------------------------------------------------------
(* Claims on background loading.                                           *)

\* C25: every successful load-completion handler installs the loader,
\* processor and analyzer of the thread whose completion it handles, a
\* thread that has finished, and never reads those of another thread.
C25_InstallsFromHandledThread ==
    (installed # None /\ installed[1].outcome # "failed") =>
        /\ installed[1].source = installed[1].handled
        /\ installed[1].source_step = "finished"
        /\ installed[1].outcome = "installed"

----------------------------------------------------------------------------
(* Claims on ThreadManager.                                                *)

\* The thread most recently started under thread_id, if any.
StartedUnder(thread_id) ==
    {t \in ManagedIds : /\ managed_threads[t].state # "new"
                        /\ managed_threads[t].thread_id = thread_id}

LatestUnder(thread_id) ==
    CHOOSE t \in StartedUnder(thread_id) :
        \A u \in StartedUnder(thread_id) : u <= t

\* C26: is_thread_running(thread_id) is true exactly while the thread most
\* recently started under thread_id has neither been stopped nor had its
\* completion delivered; in particular the completion of a replaced thread
\* does not unregister its replacement.
C26_RunningIffLatestAlive ==
    \A k \in ThreadKeys :
        IsThreadRunning(active_threads, k) <=>
            /\ StartedUnder(k) # {}
            /\ managed_threads[LatestUnder(k)].state \in {"running", "ended"}

----------------------------------------------------------------------------
(* Claims on the timeline.                                                 *)

\* C27: in every reachable state of the timeline controls
\* 0 <= current_position <= total_duration, whatever set_duration,
\* set_position and slider changes came before.
C27_PositionWithinDuration ==
    /\ 0 <= tl_current_position
    /\ tl_current_position <= tl_total_duration

\* C28 (as stated): a slider change makes timeline_changed emit exactly
\* once.
C28_AsStated ==
    tl_operation = "slider" => Len(tl_emitted) = 1

\* C28 (amended): a slider change on a timeline with total_duration > 0
\* makes timeline_changed emit exactly once, a position within the
\* recording, the plot's feedback into set_position emitting nothing
\* further; with total_duration = 0 it emits nothing.
C28_OnceWhenDurationPositive ==
    tl_operation = "slider" =>
        IF tl_total_duration > 0
        THEN /\ Len(tl_emitted) = 1
             /\ tl_emitted[1] \in 0..tl_total_duration
        ELSE tl_emitted = <<>>

\* A slider change that moved the plot and came back into set_position:
\* one emission, and controls and plot at the emitted position.
C28_SliderMovedPlot ==
    /\ tl_operation = "slider"
    /\ tl_total_duration > 0
    /\ tl_emitted = <<tl_current_position>>
    /\ tl_plot_position = tl_current_position
    /\ tl_current_position > 0

----------------------------------------------------------------------------
(* Claims on the band registry alone.                                      *)

\* C29: after add_custom_band(name, low, high), get_band_range(name)
\* returns (low, high), for every name: a lookup of a name registered as a
\* custom band gives the range last stored under it.
C29_CustomRangeReturned ==
    (/\ band_call # None
     /\ band_call[1].op = "get_band_range"
     /\ band_call[1].band_name \in DOMAIN custom_bands) =>
        band_call[1].result =
            <<custom_bands[band_call[1].band_name].low,
              custom_bands[band_call[1].band_name].high>>

----------------------------------------------------------------------------
(* Claims on ChannelSelector.                                              *)

\* C30: set_current_channel with a valid index makes it the selection, of
\* the widget and of its combo box, without emitting channel_changed; with
\* an index out of range it changes nothing and emits nothing.
C30_SetCurrentChannelSilent ==
    [][cs_operation'.op = "set_current_channel" =>
           /\ cs_emitted' = <<>>
           /\ cs_channel_count' = cs_channel_count
           /\ IF 0 <= cs_operation'.arg /\ cs_operation'.arg < cs_channel_count
              THEN /\ cs_current_channel' = cs_operation'.arg
                   /\ cs_combo_index' = cs_operation'.arg
              ELSE UNCHANGED <<cs_current_channel, cs_combo_index>>]_vars

\* set_current_channel has selected a channel other than the first.
C30_LaterChannelSelected ==
    /\ cs_operation.op = "set_current_channel"
    /\ cs_operation.arg > 0
    /\ cs_current_channel = cs_operation.arg
    /\ cs_combo_index = cs_operation.arg
    /\ cs_emitted = <<>>

============================================================================
